---- MODULE Spec2Model ----
(***************************************************************************)
(* Model of gmail-power-cli: the Groq CLI tool dispatcher (callTool) with  *)
(* its session context, the Gemini CLI dispatcher (callMCPTool), the MCP   *)
(* server's tools/call handler and the GmailService wrapper they share,   *)
(* and the read loops of the Groq, Gemini and Anthropic CLIs with their    *)
(* processCommand and conversation history.                                *)
(*                                                                         *)
(* Strings are sequences of one-character strings, so that the string      *)
(* functions of the source (===, toUpperCase, toLowerCase, startsWith,     *)
(* parseInt) are computed the way the source computes them.                *)
(***************************************************************************)
EXTENDS Integers, Sequences, FiniteSets, TLC

\* ------------------------------------------------------------------------
\* Bounds of the model
\* ------------------------------------------------------------------------
\* largest maxResults argument a search_emails call is given
MaxResults == 3
\* largest number of entries in one addLabels / removeLabels argument
MaxLabelArgs == 2
\* longest response of a messages.list request
MaxListed == 101
\* largest number of top-level parts of a message that is read
MaxParts == 2

\* ------------------------------------------------------------------------
\* JavaScript strings
\* ------------------------------------------------------------------------
LowerChars == <<"a","b","c","d","e","f","g","h","i","j","k","l","m",
                "n","o","p","q","r","s","t","u","v","w","x","y","z">>
UpperChars == <<"A","B","C","D","E","F","G","H","I","J","K","L","M",
                "N","O","P","Q","R","S","T","U","V","W","X","Y","Z">>
DigitChars == <<"0","1","2","3","4","5","6","7","8","9">>

IndexIn(c, chars) == IF \E i \in DOMAIN chars : chars[i] = c
                     THEN CHOOSE i \in DOMAIN chars : chars[i] = c
                     ELSE 0

\* the letters' other case
UpperOf == [c \in {LowerChars[i] : i \in DOMAIN LowerChars} |->
              UpperChars[IndexIn(c, LowerChars)]]
LowerOf == [c \in {UpperChars[i] : i \in DOMAIN UpperChars} |->
              LowerChars[IndexIn(c, UpperChars)]]

\* String.prototype.toUpperCase / toLowerCase, character by character
toUpperChar(c) == IF c \in DOMAIN UpperOf THEN UpperOf[c] ELSE c
toLowerChar(c) == IF c \in DOMAIN LowerOf THEN LowerOf[c] ELSE c
toUpperCase(s) == [i \in 1..Len(s) |-> toUpperChar(s[i])]
toLowerCase(s) == [i \in 1..Len(s) |-> toLowerChar(s[i])]

\* String.prototype.startsWith
startsWith(s, p) == Len(s) >= Len(p) /\ SubSeq(s, 1, Len(p)) = p

\* the value of a digit of the given radix, or -1
DigitValue(c, radix) ==
  LET d == IndexIn(c, DigitChars)
      l == IndexIn(toLowerChar(c), LowerChars)
  IN  IF d > 0 THEN (IF d - 1 < radix THEN d - 1 ELSE -1)
      ELSE IF l > 0 /\ l <= 6 /\ radix = 16 THEN 9 + l
      ELSE -1

RECURSIVE SkipWhiteSpace(_)
SkipWhiteSpace(s) == IF s # <<>> /\ Head(s) = " " THEN SkipWhiteSpace(Tail(s)) ELSE s

\* the longest prefix of digits of s, accumulated: [nan, val]
RECURSIVE ParseDigits(_, _, _, _)
ParseDigits(s, radix, acc, seen) ==
  IF s # <<>> /\ DigitValue(Head(s), radix) >= 0
  THEN ParseDigits(Tail(s), radix, acc * radix + DigitValue(Head(s), radix), TRUE)
  ELSE [nan |-> ~seen, val |-> acc]

\* parseInt(string) with no radix argument: leading white space is skipped,
\* an optional sign is read, a 0x/0X prefix selects radix 16, then the longest
\* prefix of digits is converted; NaN when there is no digit.
parseInt(str) ==
  LET s0   == SkipWhiteSpace(str)
      neg  == s0 # <<>> /\ Head(s0) = "-"
      s1   == IF s0 # <<>> /\ Head(s0) \in {"-", "+"} THEN Tail(s0) ELSE s0
      hex  == Len(s1) >= 2 /\ s1[1] = "0" /\ s1[2] \in {"x", "X"}
      s2   == IF hex THEN SubSeq(s1, 3, Len(s1)) ELSE s1
      r    == ParseDigits(s2, IF hex THEN 16 ELSE 10, 0, FALSE)
  IN  [nan |-> r.nan, val |-> IF neg THEN 0 - r.val ELSE r.val]

\* null, undefined and "" are all falsy; the model writes them <<>>
NULL == <<>>
Truthy(s) == s # NULL

\* ------------------------------------------------------------------------
\* String literals of the source and of the modelled Gmail account
\* ------------------------------------------------------------------------
S_first == <<"f","i","r","s","t">>
S_last == <<"l","a","s","t">>
S_latest == <<"l","a","t","e","s","t">>
S_last_read == <<"l","a","s","t","_","r","e","a","d">>
S_all_from_search == <<"a","l","l","_","f","r","o","m","_","s","e","a","r","c","h">>
S_those == <<"t","h","o","s","e">>
S_it == <<"i","t">>
S_this == <<"t","h","i","s">>
S_LabelPrefix == <<"L","a","b","e","l","_">>
S_INBOX == <<"I","N","B","O","X">>
S_UNREAD == <<"U","N","R","E","A","D">>
S_STARRED == <<"S","T","A","R","R","E","D">>

\* message ids of the modelled mailbox, in the order messages.list returns
\* them (newest first); two of them begin with a digit, as hexadecimal
\* Gmail ids often do
Id_m1 == <<"m","1">>
Id_1a == <<"1","a">>
Id_2b == <<"2","b">>
Mailbox == <<Id_m1, Id_1a, Id_2b>>
MailboxIds == {Mailbox[i] : i \in DOMAIN Mailbox}
\* an id no message has
Id_x9 == <<"x","9">>

\* the ids of a long list response: b000, b001, ...
BulkId(i) == <<"b", DigitChars[((i \div 100) % 10) + 1],
               DigitChars[((i \div 10) % 10) + 1], DigitChars[(i % 10) + 1]>>
Bulk(n) == [i \in 1..n |-> BulkId(i)]
\* the ids the account has a message for
AccountIds == MailboxIds \cup {BulkId(i) : i \in 1..MaxListed}

\* labels of the modelled account
L_Work == <<"W","o","r","k">>
L_work == <<"w","o","r","k">>
L_WORK == <<"W","O","R","K">>
L_inbox == <<"i","n","b","o","x">>
L_Inbox == <<"I","n","b","o","x">>
L_Todo == <<"T","o","d","o">>
L_Label_1 == S_LabelPrefix \o <<"1">>
BaseLabels == << [id |-> S_INBOX, name |-> S_INBOX],
                 [id |-> L_Label_1, name |-> L_Work] >>

\* ------------------------------------------------------------------------
\* Sequence helpers
\* ------------------------------------------------------------------------
Take(s, n) == SubSeq(s, 1, IF n < Len(s) THEN n ELSE Len(s))
Range(s) == {s[i] : i \in DOMAIN s}
\* an optional field: <<>> when absent, <<v>> when present with value v
Absent == <<>>
Present(v) == <<v>>
\* a record has the field k (the field is not undefined)
Has(rec, k) == k \in DOMAIN rec
\* Array.prototype.map
Map(s, F(_)) == [i \in DOMAIN s |-> F(s[i])]
\* all sequences over S of length at most n
SeqsUpTo(S, n) == UNION {[1..k -> S] : k \in 0..n}

\* ------------------------------------------------------------------------
\* State
\* ------------------------------------------------------------------------
VARIABLES
  pc,                \* "start" before the start() of a front-end ran, then
                     \* "loop" (Groq CLI), "gemini" or "anthropic"
  gmailService,      \* Groq CLI this.gmailService: "null", "created"
                     \* (constructed, gmail field unset) or "ready"
  lastEmailIds,      \* Groq CLI session context
  lastSearchResults,
  lastReadEmailId,
  labelsCache,
  geminiService,     \* Gemini CLI this.gmailService, as gmailService
  mcpGmail,          \* MCP server: gmailService["gmail"] is set
  serverLabels,      \* the labels of the Gmail account
  call,              \* the tool call dispatched last and its outcome
  events,            \* what that call did, in order: confirmation prompts,
                     \* GmailService methods invoked, Gmail requests, warnings;
                     \* for a step of a front-end's read loop, the line read
                     \* and what the step requested and reported
  conversationHistory, \* Groq CLI this.conversationHistory
  context,           \* Gemini and Anthropic CLI this.context
  commands,          \* the processCommand executions in progress
  exitCode           \* Present(code) once process.exit(code) was called, NULL
                     \* while the process runs

vars == <<pc, gmailService, lastEmailIds, lastSearchResults, lastReadEmailId,
          labelsCache, geminiService, mcpGmail, serverLabels, call, events,
          conversationHistory, context, commands, exitCode>>

\* the state of the read loops of the front-ends
loopVars == <<conversationHistory, context, commands, exitCode>>

groqVars == <<pc, gmailService, lastEmailIds, lastSearchResults,
              lastReadEmailId, labelsCache>>

\* events
Prompt(action, answer) == [type |-> "prompt", action |-> action, answer |-> answer]
Svc(method, args) == [type |-> "svc", method |-> method, args |-> args]
Request(api, args) == [type |-> "request", api |-> api, args |-> args]
Warn(text, arg) == [type |-> "warn", text |-> text, arg |-> arg]

\* results of a GmailService method: a value, or a thrown error
Ok(value, evs) == [ok |-> TRUE, value |-> value, events |-> evs]
Throw(error, evs) == [ok |-> FALSE, value |-> [error |-> error], events |-> evs]
\* new Error(`<operation error>: ${error}`): the error of a method's catch
\* block, whose message ends with the text of the error it caught
Fail(error, cause, evs) ==
  [ok |-> FALSE, value |-> [error |-> error, cause |-> cause], events |-> evs]
\* the error a rejected Gmail request throws
Rejected(req) == [rejected |-> req.api, args |-> req.args]

\* ------------------------------------------------------------------------
\* GmailService (the wrapper around the Gmail REST API)
\*
\* ready: the gmail field is set (initialize() succeeded).
\* f: which Gmail request of the method call fails for a reason outside the
\*    program (network, quota), counted in the order they are issued; 0 for
\*    none. The account also rejects a get, modify or trash of an id that no
\*    message has.
\* Requests issued from an array's map(async ...) are all issued before any
\* of them completes, so a failure of one does not stop the others from
\* being sent.
\* ------------------------------------------------------------------------
\* default of the maxResults parameter
DefaultMaxResults == 10
\* maxResults of the list request of batchOperation
BatchListMax == 100

NotInitialized == "GmailService not initialized. Call initialize() first."

\* the messages a query matches, in the account's order; a query is modelled
\* by the set of ids it matches
Matching(Q) == SelectSeq(Mailbox, LAMBDA m : m \in Q)

\* the k-th request of a method call fails
RequestFails(req, k, f) ==
  \/ k = f
  \/ req.api \in {"messages.get", "messages.modify", "messages.trash"}
     /\ req.args.id \notin AccountIds

AnyFails(reqs, offset, f) ==
  \E i \in DOMAIN reqs : RequestFails(reqs[i], offset + i, f)

\* Promise.all rejects with the first rejection; requests are answered in the
\* order they were issued
FirstRejected(reqs, offset, f) ==
  Rejected(reqs[CHOOSE i \in DOMAIN reqs :
                  /\ RequestFails(reqs[i], offset + i, f)
                  /\ \A j \in 1..(i - 1) : ~RequestFails(reqs[j], offset + j, f)])

\* Promise.all fulfilling with the values in the order the promises settled
PromiseAll_SettleOrder(values, order) == [k \in DOMAIN values |-> values[order[k]]]

\* Promise.all(promises): fulfils with the array of the promises' values, each
\* at the index of its promise, whatever order they settle in. order[k] is
\* the index of the promise that settles k-th
PromiseAll(values, order) == values

\* searchEmails sending its list request again after a failure
searchEmailsOn_RetriesList(ready, Q, listed, maxResults, f, order) ==
  IF ~ready THEN Throw(NotInitialized, <<>>)
  ELSE
    LET list == Request("messages.list", [q |-> Q, maxResults |-> maxResults])
        hits == Take(listed, maxResults)
        gets == [i \in DOMAIN hits |->
                   Request("messages.get", [id |-> hits[i], format |-> "metadata"])]
    IN  IF RequestFails(list, 1, f)
        THEN Fail("Failed to search emails", Rejected(list), <<list, list>>)
        ELSE IF hits = <<>>
        THEN Ok([messages |-> <<>>], <<list>>)
        ELSE IF AnyFails(gets, 1, f)
        THEN Fail("Failed to search emails", FirstRejected(gets, 1, f), <<list>> \o gets)
        ELSE Ok([messages |-> PromiseAll([i \in DOMAIN hits |-> [id |-> hits[i]]], order)],
                <<list>> \o gets)

\* searchEmails, given the ids that the response of the list request holds
\* (listed) and the order in which the metadata requests are answered
searchEmailsOn(ready, Q, listed, maxResults, f, order) ==
  IF ~ready THEN Throw(NotInitialized, <<>>)
  ELSE
    LET list == Request("messages.list", [q |-> Q, maxResults |-> maxResults])
        hits == Take(listed, maxResults)
        gets == [i \in DOMAIN hits |->
                   Request("messages.get", [id |-> hits[i], format |-> "metadata"])]
    IN  IF RequestFails(list, 1, f)
        THEN Fail("Failed to search emails", Rejected(list), <<list>>)
        ELSE IF hits = <<>>
        THEN Ok([messages |-> <<>>], <<list>>)
        ELSE IF AnyFails(gets, 1, f)
        THEN Fail("Failed to search emails", FirstRejected(gets, 1, f), <<list>> \o gets)
        ELSE Ok([messages |-> PromiseAll([i \in DOMAIN hits |-> [id |-> hits[i]]], order)],
                <<list>> \o gets)

\* searchEmails on the modelled account, whose list request answers with at
\* most maxResults ids, the metadata requests answered in the order issued
searchEmails(ready, Q, maxResults, f) ==
  LET listed == Take(Matching(Q), maxResults)
  IN  searchEmailsOn(ready, Q, listed, maxResults, f,
                     [i \in 1..Len(Take(listed, maxResults)) |-> i])

\* Buffer.from(data, "base64").toString("utf-8"), on the contents that the
\* modelled messages carry
Base64 == [d \in {"QQ==", "Qg==", "SA==", "VA=="} |->
             CASE d = "QQ==" -> <<"A">>
               [] d = "Qg==" -> <<"B">>
               [] d = "SA==" -> <<"H">>
               [] d = "VA==" -> <<"T">>]
Decode(data) == Base64[data]

\* part.body?.data, part.filename, part.body?.attachmentId are set (truthy)
HasData(part) == Has(part, "body") /\ Has(part.body, "data") /\ part.body.data # ""
HasFilename(part) == Has(part, "filename") /\ part.filename # ""
HasAttachmentId(part) ==
  Has(part, "body") /\ Has(part.body, "attachmentId") /\ part.body.attachmentId # ""

\* extractBody: appends to body the content of every text/plain part that
\* has data, descending into the parts of the other parts
RECURSIVE extractBody(_)
extractBody(parts) ==
  IF parts = <<>> THEN <<>>
  ELSE LET part == Head(parts)
           here == IF part.mimeType = "text/plain" /\ HasData(part)
                   THEN Decode(part.body.data)
                   ELSE IF Has(part, "parts") THEN extractBody(part.parts)
                   ELSE <<>>
       IN  here \o extractBody(Tail(parts))

\* the attachments field: of the top-level parts, those with a filename and
\* an attachment id
Attachments(parts) ==
  Map(SelectSeq(parts, LAMBDA p : HasFilename(p) /\ HasAttachmentId(p)),
      LAMBDA p : [filename |-> p.filename, mimeType |-> p.mimeType,
                  attachmentId |-> p.body.attachmentId])

\* the value readEmail returns for the message that messages.get returned
ReadResult(message) ==
  LET payload == message.payload
      body == IF Has(payload, "parts") THEN extractBody(payload.parts)
              ELSE IF HasData(payload) THEN Decode(payload.body.data)
              ELSE <<>>
      snippet == IF Has(message, "snippet") THEN message.snippet ELSE <<>>
      base == [id |-> message.id,
               body |-> IF body # <<>> THEN body ELSE snippet]
  IN  IF Has(payload, "parts")
      THEN [k \in {"id", "body", "attachments"} |->
              IF k = "attachments" THEN Attachments(payload.parts) ELSE base[k]]
      ELSE base

\* readEmail, given the message that the account holds under messageId
readEmailOf(ready, messageId, message, f) ==
  IF ~ready THEN Throw(NotInitialized, <<>>)
  ELSE
    LET get == Request("messages.get", [id |-> messageId, format |-> "full"])
    IN  IF RequestFails(get, 1, f)
        THEN Fail("Failed to read email", Rejected(get), <<get>>)
        ELSE Ok(ReadResult(message), <<get>>)

\* the messages of the modelled mailbox are plain, single-part messages
MessageOf(messageId) ==
  [id |-> messageId, snippet |-> <<"s">>,
   payload |-> [mimeType |-> "text/plain", body |-> [data |-> "QQ=="]]]

readEmail(ready, messageId, f) ==
  readEmailOf(ready, messageId, MessageOf(messageId), f)

\* modifyLabels reporting the number of distinct messages it modified
modifyLabels_CountsDistinct(ready, messageIds, addLabels, removeLabels, f) ==
  IF ~ready THEN Throw(NotInitialized, <<>>)
  ELSE
    LET reqs == [i \in DOMAIN messageIds |->
                   Request("messages.modify",
                           [id |-> messageIds[i], addLabelIds |-> addLabels,
                            removeLabelIds |-> removeLabels])]
    IN  IF AnyFails(reqs, 0, f)
        THEN Fail("Failed to modify labels", FirstRejected(reqs, 0, f), reqs)
        ELSE Ok([modified |-> Cardinality(Range(messageIds)),
                 results |-> [i \in DOMAIN messageIds |->
                                [messageId |-> messageIds[i], success |-> TRUE]]],
                reqs)

modifyLabels(ready, messageIds, addLabels, removeLabels, f) ==
  IF ~ready THEN Throw(NotInitialized, <<>>)
  ELSE
    LET reqs == [i \in DOMAIN messageIds |->
                   Request("messages.modify",
                           [id |-> messageIds[i], addLabelIds |-> addLabels,
                            removeLabelIds |-> removeLabels])]
    IN  IF AnyFails(reqs, 0, f)
        THEN Fail("Failed to modify labels", FirstRejected(reqs, 0, f), reqs)
        ELSE Ok([modified |-> Len(reqs),
                 results |-> [i \in DOMAIN messageIds |->
                                [messageId |-> messageIds[i], success |-> TRUE]]],
                reqs)

\* Array.prototype.join(", ")
RECURSIVE Join(_)
Join(list) ==
  IF list = <<>> THEN <<>>
  ELSE IF Len(list) = 1 THEN list[1]
  ELSE list[1] \o <<",", " ">> \o Join(Tail(list))

\* a record of the optional fields that are present: each entry of opts is
\* <<name, Absent>> or <<name, Present(v)>>
Options(opts) ==
  [k \in {o[1] : o \in {o \in opts : o[2] # Absent}} |->
     (CHOOSE o \in opts : o[1] = k)[2][1]]

\* the message as sendEmail assembles it, line by line, before it is joined
\* with newlines and encoded
MessageParts(to, subject, body, options) ==
  <<[header |-> "To", value |-> Join(to)], [header |-> "Subject", value |-> subject]>>
  \o (IF Has(options, "cc") /\ Len(options.cc) > 0
      THEN <<[header |-> "Cc", value |-> Join(options.cc)]>> ELSE <<>>)
  \o (IF Has(options, "bcc") /\ Len(options.bcc) > 0
      THEN <<[header |-> "Bcc", value |-> Join(options.bcc)]>> ELSE <<>>)
  \o (IF Has(options, "replyTo")
      THEN <<[header |-> "In-Reply-To", value |-> options.replyTo],
             [header |-> "References", value |-> options.replyTo]>> ELSE <<>>)
  \o <<[header |-> "Content-Type", value |-> <<"text/plain; charset=utf-8">>],
       [line |-> <<>>], [line |-> body]>>

\* to is Absent when the caller passed undefined: to.join then throws a
\* TypeError inside the try block
sendEmail(ready, to, subject, body, options, f) ==
  IF ~ready THEN Throw(NotInitialized, <<>>)
  ELSE IF to = Absent
  THEN Fail("Failed to send email", [error |-> "TypeError"], <<>>)
  ELSE
    LET raw == [base64url |-> MessageParts(to[1], subject, body, options)]
        send == Request("messages.send",
                        Options({<<"raw", Present(raw)>>,
                                 <<"threadId", IF Has(options, "threadId")
                                               THEN Present(options.threadId)
                                               ELSE Absent>>}))
    IN  IF RequestFails(send, 1, f)
        THEN Fail("Failed to send email", Rejected(send), <<send>>)
        ELSE Ok(Options({<<"success", Present(TRUE)>>,
                         <<"threadId", IF Has(options, "threadId")
                                       THEN Present(options.threadId)
                                       ELSE Absent>>}),
                <<send>>)

\* the add and remove label ids of the operations that modify labels
BatchLabels(operation) ==
  CASE operation = "archive"    -> [add |-> <<>>, remove |-> <<S_INBOX>>]
    [] operation = "markRead"   -> [add |-> <<>>, remove |-> <<S_UNREAD>>]
    [] operation = "markUnread" -> [add |-> <<S_UNREAD>>, remove |-> <<>>]
    [] operation = "star"       -> [add |-> <<S_STARRED>>, remove |-> <<>>]
    [] operation = "unstar"     -> [add |-> <<>>, remove |-> <<S_STARRED>>]

\* batchOperationOn keeping the first BatchListMax ids of the response
batchOperationOn_Sliced(ready, Q, listed, operation, f) ==
  IF ~ready THEN Throw(NotInitialized, <<>>)
  ELSE
    LET list == Request("messages.list", [q |-> Q, maxResults |-> BatchListMax])
        messageIds == Take(listed, BatchListMax)
        trash == [i \in DOMAIN messageIds |->
                    Request("messages.trash", [id |-> messageIds[i]])]
        done == [affected |-> Len(messageIds), operation |-> operation,
                 messageIds |-> messageIds]
    IN  IF RequestFails(list, 1, f)
        THEN Fail("Failed to perform batch operation", Rejected(list), <<list>>)
        ELSE IF messageIds = <<>>
        THEN Ok([affected |-> 0, operation |-> operation], <<list>>)
        ELSE IF operation = "delete"
        THEN IF AnyFails(trash, 1, f)
             THEN Fail("Failed to perform batch operation", FirstRejected(trash, 1, f),
                       <<list>> \o trash)
             ELSE Ok(done, <<list>> \o trash)
        ELSE IF operation \in {"archive", "markRead", "markUnread", "star", "unstar"}
        THEN LET m == modifyLabels(ready, messageIds, BatchLabels(operation).add,
                                   BatchLabels(operation).remove, f - 1)
             IN  IF m.ok THEN Ok(done, <<list>> \o m.events)
                 ELSE Fail("Failed to perform batch operation", m.value,
                           <<list>> \o m.events)
        ELSE Fail("Failed to perform batch operation",
                  [error |-> "Unknown operation", operation |-> operation], <<list>>)

\* batchOperation, given the ids that the response of its list request holds
\* (listed); a response without messages has no messages field
batchOperationOn(ready, Q, listed, operation, f) ==
  IF ~ready THEN Throw(NotInitialized, <<>>)
  ELSE
    LET list == Request("messages.list", [q |-> Q, maxResults |-> BatchListMax])
        messageIds == listed
        trash == [i \in DOMAIN messageIds |->
                    Request("messages.trash", [id |-> messageIds[i]])]
        done == [affected |-> Len(messageIds), operation |-> operation,
                 messageIds |-> messageIds]
    IN  IF RequestFails(list, 1, f)
        THEN Fail("Failed to perform batch operation", Rejected(list), <<list>>)
        ELSE IF messageIds = <<>>
        THEN Ok([affected |-> 0, operation |-> operation], <<list>>)
        ELSE IF operation = "delete"
        THEN IF AnyFails(trash, 1, f)
             THEN Fail("Failed to perform batch operation", FirstRejected(trash, 1, f),
                       <<list>> \o trash)
             ELSE Ok(done, <<list>> \o trash)
        ELSE IF operation \in {"archive", "markRead", "markUnread", "star", "unstar"}
        THEN LET m == modifyLabels(ready, messageIds, BatchLabels(operation).add,
                                   BatchLabels(operation).remove, f - 1)
             IN  IF m.ok THEN Ok(done, <<list>> \o m.events)
                 ELSE Fail("Failed to perform batch operation", m.value,
                           <<list>> \o m.events)
        ELSE Fail("Failed to perform batch operation",
                  [error |-> "Unknown operation", operation |-> operation], <<list>>)

\* batchOperation on the modelled account, whose list responses hold the
\* first maxResults matches
batchOperation(ready, Q, operation, f) ==
  batchOperationOn(ready, Q, Take(Matching(Q), BatchListMax), operation, f)

listLabels(ready, server, f) ==
  IF ~ready THEN Throw(NotInitialized, <<>>)
  ELSE
    LET list == Request("labels.list", [userId |-> "me"])
    IN  IF RequestFails(list, 1, f)
        THEN Fail("Failed to list labels", Rejected(list), <<list>>)
        ELSE Ok(server, <<list>>)

\* the id the account gives the next label it creates
NewLabelId(server) == S_LabelPrefix \o <<DigitChars[Len(server) + 1]>>

\* the account refuses a label whose name it already has
createLabel(ready, server, name, f) ==
  IF ~ready THEN Throw(NotInitialized, <<>>)
  ELSE
    LET create == Request("labels.create",
                          [name |-> name, labelListVisibility |-> "labelShow",
                           messageListVisibility |-> "show"])
    IN  IF RequestFails(create, 1, f)
           \/ \E i \in DOMAIN server : toLowerCase(server[i].name) = toLowerCase(name)
        THEN Fail("Failed to create label", Rejected(create), <<create>>)
        ELSE Ok([id |-> NewLabelId(server), name |-> name], <<create>>)

\* the fields of action that createFilter copies into the filter
FilterAction(action) ==
  [k \in {k \in DOMAIN action :
            k \in {"addLabelIds", "removeLabelIds", "forward"}} |-> action[k]]

createFilter(ready, criteria, action, f) ==
  IF ~ready THEN Throw(NotInitialized, <<>>)
  ELSE
    LET create == Request("settings.filters.create",
                          [criteria |-> criteria, action |-> FilterAction(action)])
    IN  IF RequestFails(create, 1, f)
        THEN Fail("Failed to create filter", Rejected(create), <<create>>)
        ELSE Ok([id |-> "filter", criteria |-> criteria,
                 action |-> FilterAction(action)], <<create>>)

\* ------------------------------------------------------------------------
\* Groq CLI: session context helpers
\* ------------------------------------------------------------------------
\* labelsCache.find(l => l.name.toLowerCase() === labelName.toLowerCase()),
\* then its id, or null
getLabelIdByName(cache, labelName) ==
  LET hits == {i \in DOMAIN cache : toLowerCase(cache[i].name) = toLowerCase(labelName)}
  IN  IF hits = {} THEN NULL
      ELSE cache[CHOOSE i \in hits : \A j \in hits : i <= j].id

\* refreshLabelsCache: the cache becomes what listLabels returns; when
\* listLabels throws, a warning is printed and the cache is kept
refreshLabelsCache(ready, cache, server, f) ==
  LET r == listLabels(ready, server, f)
  IN  IF r.ok THEN [cache |-> r.value, events |-> r.events]
      ELSE [cache |-> cache,
            events |-> r.events \o <<Warn("Could not cache labels", NULL)>>]

\* ResolveMessageId with "latest" taken for a synonym of "first"
ResolveMessageId_LatestIsFirst(messageId, ids, lastRead) ==
  IF messageId \in {S_first, S_latest} /\ Len(ids) > 0 THEN ids[1]
  ELSE IF messageId = S_last /\ Len(ids) > 0 THEN ids[Len(ids)]
  ELSE IF messageId = S_last_read /\ Truthy(lastRead) THEN lastRead
  ELSE IF ~parseInt(messageId).nan /\ Len(ids) > 0
  THEN LET index == parseInt(messageId).val - 1
       IN  IF index >= 0 /\ index < Len(ids) THEN ids[index + 1] ELSE messageId
  ELSE messageId

\* ResolveMessageId with "last" taken for a synonym of "first"
ResolveMessageId_LastIsFirst(messageId, ids, lastRead) ==
  IF messageId \in {S_first, S_last} /\ Len(ids) > 0 THEN ids[1]
  ELSE IF messageId = S_last_read /\ Truthy(lastRead) THEN lastRead
  ELSE IF ~parseInt(messageId).nan /\ Len(ids) > 0
  THEN LET index == parseInt(messageId).val - 1
       IN  IF index >= 0 /\ index < Len(ids) THEN ids[index + 1] ELSE messageId
  ELSE messageId

\* ResolveMessageId with the position taken for a 0-based index
ResolveMessageId_ZeroBased(messageId, ids, lastRead) ==
  IF messageId = S_first /\ Len(ids) > 0 THEN ids[1]
  ELSE IF messageId = S_last /\ Len(ids) > 0 THEN ids[Len(ids)]
  ELSE IF messageId = S_last_read /\ Truthy(lastRead) THEN lastRead
  ELSE IF ~parseInt(messageId).nan /\ Len(ids) > 0
  THEN LET index == parseInt(messageId).val
       IN  IF index >= 0 /\ index < Len(ids) THEN ids[index + 1] ELSE messageId
  ELSE messageId

\* read_email: the message id a messageId argument stands for
ResolveMessageId(messageId, ids, lastRead) ==
  IF messageId = S_first /\ Len(ids) > 0 THEN ids[1]
  ELSE IF messageId = S_last /\ Len(ids) > 0 THEN ids[Len(ids)]
  ELSE IF messageId = S_last_read /\ Truthy(lastRead) THEN lastRead
  ELSE IF ~parseInt(messageId).nan /\ Len(ids) > 0
  THEN LET index == parseInt(messageId).val - 1
       IN  IF index >= 0 /\ index < Len(ids) THEN ids[index + 1] ELSE messageId
  ELSE messageId

\* ResolveMessageIds with 'those' resolved only when the last search found
\* messages
ResolveMessageIds_NonEmptyOnly(messageIds, ids, lastRead) ==
  IF Len(messageIds) = 1
  THEN IF (messageIds[1] = S_all_from_search \/ messageIds[1] = S_those) /\ Len(ids) > 0
       THEN ids
       ELSE IF messageIds[1] = S_last_read /\ Truthy(lastRead) THEN <<lastRead>>
       ELSE IF messageIds[1] = S_it \/ messageIds[1] = S_this
       THEN IF Truthy(lastRead) THEN <<lastRead>>
            ELSE IF Len(ids) > 0 THEN <<ids[1]>>
            ELSE messageIds
       ELSE messageIds
  ELSE messageIds

\* modify_labels: the message ids a messageIds argument stands for
ResolveMessageIds(messageIds, ids, lastRead) ==
  IF Len(messageIds) = 1
  THEN IF messageIds[1] = S_all_from_search \/ messageIds[1] = S_those THEN ids
       ELSE IF messageIds[1] = S_last_read /\ Truthy(lastRead) THEN <<lastRead>>
       ELSE IF messageIds[1] = S_it \/ messageIds[1] = S_this
       THEN IF Truthy(lastRead) THEN <<lastRead>>
            ELSE IF Len(ids) > 0 THEN <<ids[1]>>
            ELSE messageIds
       ELSE messageIds
  ELSE messageIds

\* modify_labels: an entry that is taken for an id and not looked up
IsSystemLabel(label) == toUpperCase(label) = label \/ startsWith(label, S_LabelPrefix)
\* create_filter: an entry that is taken for an id and not looked up
IsFilterSystemLabel(label) == toUpperCase(label) = label

\* The entries of a label list that miss the cache: each of them triggers a
\* refreshLabelsCache. The callbacks of map(async ...) all run up to their
\* first await before any refresh completes, so every first lookup sees the
\* cache as it was, and one labels.list request is sent per missing entry.
MissingLabels(labels, cache, System(_)) ==
  {i \in DOMAIN labels : ~System(labels[i]) /\ ~Truthy(getLabelIdByName(cache, labels[i]))}

\* The refreshes complete in any order. failed: the entries whose own
\* refresh fails; early: those of them that complete before the first
\* refresh that succeeds. An entry is looked up again when its own refresh
\* has completed, in the cache as it is then.
LabelLookups(labels, cache, server, ready, failed, early, System(_)) ==
  LET missing   == MissingLabels(labels, cache, System)
      succeeded == IF ready THEN missing \ failed ELSE {}
      seen      == IF succeeded = {} THEN {} ELSE missing \ early
      second(i) == getLabelIdByName(IF i \in seen THEN server ELSE cache, labels[i])
      found     == [i \in DOMAIN labels |->
                      IF System(labels[i]) THEN labels[i]
                      ELSE IF i \in missing THEN second(i)
                      ELSE getLabelIdByName(cache, labels[i])]
      lists     == IF ready
                   THEN [i \in DOMAIN labels |->
                           IF i \in missing
                           THEN <<Request("labels.list", [userId |-> "me"])>>
                           ELSE <<>>]
                   ELSE [i \in DOMAIN labels |-> <<>>]
      warns     == [i \in DOMAIN labels |->
                      IF i \in missing \ succeeded
                      THEN <<Warn("Could not cache labels", NULL)>> ELSE <<>>]
  IN  [missing |-> missing,
       found   |-> found,
       cache   |-> IF succeeded = {} THEN cache ELSE server,
       lists   |-> lists,
       warns   |-> warns]

\* the outcomes of the refreshes that the model distinguishes
RefreshOutcomes(labels, cache, ready, System(_)) ==
  LET missing == MissingLabels(labels, cache, System)
  IN  {o \in [failed : SUBSET missing, early : SUBSET missing] :
         /\ o.early \subseteq o.failed
         /\ ~ready => (o.failed = missing /\ o.early = {})}

RECURSIVE Flatten(_)
Flatten(ss) == IF ss = <<>> THEN <<>> ELSE Head(ss) \o Flatten(Tail(ss))

\* ConvertLabels without the refresh and the second lookup
ConvertLabels_NoRetry(labels, cache, server, ready, failed, early) ==
  LET found == [i \in DOMAIN labels |->
                  IF IsSystemLabel(labels[i]) THEN labels[i]
                  ELSE getLabelIdByName(cache, labels[i])]
      skipped == [i \in DOMAIN labels |->
                    IF Truthy(found[i]) THEN <<>>
                    ELSE <<Warn("Label not found. Skipping.", labels[i])>>]
  IN  [ids    |-> SelectSeq(found, LAMBDA id : id # NULL),
       cache  |-> cache,
       events |-> Flatten(skipped)]

\* modify_labels, one of addLabels / removeLabels: names become ids, an
\* entry that is still not found after its refresh is dropped with a warning
\* (filter(id => id !== null))
ConvertLabels(labels, cache, server, ready, failed, early) ==
  LET l == LabelLookups(labels, cache, server, ready, failed, early, IsSystemLabel)
      skipped == [i \in DOMAIN labels |->
                    IF Truthy(l.found[i]) THEN <<>>
                    ELSE <<Warn("Label not found. Skipping.", labels[i])>>]
  IN  [ids    |-> SelectSeq(l.found, LAMBDA id : id # NULL),
       cache  |-> l.cache,
       events |-> Flatten(l.lists) \o Flatten(l.warns) \o Flatten(skipped)]

\* create_filter, action.addLabelIds: names become ids, an entry that is
\* still not found after its refresh makes the call throw
ConvertFilterLabels(labels, cache, server, ready, failed, early) ==
  LET l == LabelLookups(labels, cache, server, ready, failed, early, IsFilterSystemLabel)
  IN  [ok     |-> \A i \in DOMAIN labels : Truthy(l.found[i]),
       ids    |-> l.found,
       cache  |-> l.cache,
       events |-> Flatten(l.lists) \o Flatten(l.warns)]

\* ------------------------------------------------------------------------
\* Inputs
\* ------------------------------------------------------------------------
\* the furthest request of a call whose failure is modelled
MaxFail == 2
Fails == 0..MaxFail

\* a query is modelled by the set of the ids it matches
Queries == {{}, {Id_m1}, {Id_1a, Id_2b}, MailboxIds}

ReadTokens == {S_first, S_last, S_latest, S_last_read,
               <<"0">>, <<"1">>, <<"2">>, <<"3">>, <<"-","1">>,
               Id_m1, Id_1a, Id_2b, Id_x9}

MessageIdArgs == {<<S_those>>, <<S_all_from_search>>, <<S_last_read>>,
                  <<S_it>>, <<S_this>>, <<Id_m1>>, <<Id_m1, Id_2b>>,
                  <<S_those, Id_m1>>, <<>>}

LabelNames == {L_inbox, L_work, L_WORK, L_Label_1, L_Todo}
\* the addLabels and removeLabels of one modify_labels call
LabelArgs ==
  {p \in SeqsUpTo(LabelNames, MaxLabelArgs) \X SeqsUpTo(LabelNames, MaxLabelArgs) :
     Len(p[1]) + Len(p[2]) <= MaxLabelArgs}

\* the arguments of modify_labels: every way to name the messages with a
\* few label lists, and every label list for a few ways to name the messages
ModifyIdArgs ==
  MessageIdArgs \X {<<<<>>, <<>>>>, <<<<S_STARRED>>, <<S_INBOX>>>>, <<<<>>, <<L_inbox>>>>}
ModifyLabelArgs == {<<S_those>>, <<Id_m1>>} \X LabelArgs

Operations == {"archive", "delete", "markRead", "markUnread", "star", "unstar", "purge"}

\* the names create_label is asked to create
CreateNames == {L_Todo, L_work}

FilterActionOf(add, remove) ==
  [k \in (IF add = Absent THEN {} ELSE {"addLabelIds"})
         \cup (IF remove = Absent THEN {} ELSE {"removeLabelIds"}) |->
     IF k = "addLabelIds" THEN add[1] ELSE remove[1]]

FilterAdds == {Absent, Present(<<L_work>>), Present(<<L_Todo>>),
               Present(<<S_STARRED, L_Label_1>>)}
FilterRemoves == {Absent, Present(<<S_INBOX>>), Present(<<L_inbox>>),
                  Present(<<L_Inbox>>), Present(<<S_UNREAD, S_INBOX>>),
                  Present(<<S_UNREAD>>)}
FilterCriteria == [from |-> "*@example.com"]

\* the arguments of send_email
A_alice == <<"a","@","b",".","c">>
A_bob == <<"b","@","c",".","d">>
A_nobody == <<"n","o">>
SendTos == {Absent, Present(<<A_alice>>), Present(<<A_nobody>>), Present(<<A_alice, A_bob>>)}
SendCcs == {Absent, Present(<<A_bob>>), Present(<<A_nobody>>)}
SendBccs == {Absent, Present(<<A_bob>>)}
ThreadIds == {Absent, Present("t1")}
Subject == <<"s">>
Body == <<"b">>
SendArgs(to, cc, bcc, threadId) ==
  Options({<<"to", to>>, <<"subject", Present(Subject)>>, <<"body", Present(Body)>>,
           <<"cc", cc>>, <<"bcc", bcc>>, <<"threadId", threadId>>})
\* the value of an argument that may be undefined, as an optional value
Arg(args, k) == IF Has(args, k) THEN Present(args[k]) ELSE Absent

\* z.string().email(): one @ with a local part before it and, after it, a
\* domain with a dot between two non-empty parts
IsEmail(s) ==
  \E at \in DOMAIN s :
    /\ s[at] = "@"
    /\ at > 1
    /\ \A i \in DOMAIN s : s[i] = "@" => i = at
    /\ \E dot \in (at + 2)..(Len(s) - 1) : s[dot] = "."
\* SendEmailSchema: to is required, and every entry of to, cc and bcc is an
\* e-mail address
SendEmailValid(args) ==
  /\ Has(args, "to") /\ Has(args, "subject") /\ Has(args, "body")
  /\ \A k \in {"to", "cc", "bcc"} \cap DOMAIN args :
       \A i \in DOMAIN args[k] : IsEmail(args[k][i])

\* ------------------------------------------------------------------------
\* Calls
\* ------------------------------------------------------------------------
\* no call is being dispatched: the front-ends await their next input
NoCall == [path |-> "none", tool |-> "none"]
Idle == call = NoCall

\* a dispatched call: its arguments, the part of the session context it
\* started from and may change (before), and its result
Call(path, tool, args, before, outcome, value) ==
  [path |-> path, tool |-> tool, args |-> args, before |-> before,
   outcome |-> outcome, value |-> value]

Outcome(r) == IF r.ok THEN "ok" ELSE "error"

Init ==
  /\ pc = "start"
  /\ gmailService = "null"
  /\ lastEmailIds = <<>>
  /\ lastSearchResults = <<>>
  /\ lastReadEmailId = NULL
  /\ labelsCache = <<>>
  /\ geminiService = "null"
  /\ mcpGmail = FALSE
  /\ serverLabels = BaseLabels
  /\ call = NoCall
  /\ events = <<>>
  /\ conversationHistory = <<>>
  /\ context = <<>>
  /\ commands = <<>>
  /\ exitCode = NULL

\* The result of a call is displayed (Groq, Gemini) or sent back (MCP), and
\* the front-end awaits its next input.
Return ==
  /\ ~Idle
  /\ call' = NoCall
  /\ events' = <<>>
  /\ UNCHANGED loopVars
  /\ UNCHANGED <<groqVars, geminiService, mcpGmail, serverLabels>>

\* ------------------------------------------------------------------------
\* Groq CLI
\* ------------------------------------------------------------------------
\* start(): initializeGmailService once; a failure is reported and the loop
\* is entered all the same. initializeGmailService constructs the service,
\* awaits initialize() and, when that succeeds, caches the labels.
\* initializeGmailService assigning this.gmailService only once initialize()
\* has succeeded
initializeGmailService_AssignsWhenReady(service, authOk) ==
  IF service # "null"
  THEN [service |-> service, attempted |-> FALSE]
  ELSE [service |-> IF authOk THEN "ready" ELSE "null", attempted |-> TRUE]

\* initializeGmailService: when this.gmailService is unset, the service is
\* constructed and assigned, and then its initialize() is awaited, which
\* authenticates (authOk) and sets the service's gmail field
initializeGmailService(service, authOk) ==
  IF service # "null"
  THEN [service |-> service, attempted |-> FALSE]
  ELSE [service |-> IF authOk THEN "ready" ELSE "created", attempted |-> TRUE]

Start ==
  /\ pc = "start"
  /\ Idle
  /\ \E authOk \in BOOLEAN, f \in 0..1 :
       LET c == refreshLabelsCache(TRUE, labelsCache, serverLabels, f)
       IN  /\ gmailService' = initializeGmailService(gmailService, authOk).service
           /\ labelsCache' = IF authOk THEN c.cache ELSE labelsCache
           /\ events' = IF authOk THEN c.events ELSE <<>>
           /\ call' = Call("groq", "start", <<>>, <<>>,
                           IF authOk THEN "ok" ELSE "error", <<>>)
  /\ pc' = "loop"
  /\ UNCHANGED loopVars
  /\ UNCHANGED <<lastEmailIds, lastSearchResults, lastReadEmailId,
                 geminiService, mcpGmail, serverLabels>>

\* callTool begins with initializeGmailService(), which does nothing once
\* this.gmailService is set, as it is after start()
GroqReady == gmailService = "ready"

callTool_search_emails ==
  /\ pc = "loop"
  /\ Idle
  /\ \E Q \in Queries, maxResults \in 0..MaxResults, f \in Fails :
       LET n == IF maxResults # 0 THEN maxResults ELSE DefaultMaxResults
           r == searchEmails(GroqReady, Q, n, f)
       IN  /\ lastSearchResults' = IF r.ok THEN r.value.messages ELSE lastSearchResults
           /\ lastEmailIds' = IF r.ok THEN Map(r.value.messages, LAMBDA m : m.id)
                              ELSE lastEmailIds
           /\ call' = Call("groq", "search_emails",
                           [query |-> Q, maxResults |-> maxResults],
                           [lastEmailIds |-> lastEmailIds], Outcome(r), r.value)
           /\ events' = <<Svc("searchEmails", <<Q, n>>)>> \o r.events
  /\ UNCHANGED loopVars
  /\ UNCHANGED <<pc, gmailService, lastReadEmailId, labelsCache,
                 geminiService, mcpGmail, serverLabels>>

\* read_email storing the id before the message has been read
callTool_read_email_StoresFirst ==
  /\ pc = "loop"
  /\ Idle
  /\ \E token \in ReadTokens, f \in 0..1 :
       LET messageId == ResolveMessageId(token, lastEmailIds, lastReadEmailId)
           r == readEmail(GroqReady, messageId, f)
       IN  /\ lastReadEmailId' = messageId
           /\ call' = Call("groq", "read_email", [messageId |-> token],
                           [lastReadEmailId |-> lastReadEmailId], Outcome(r), r.value)
           /\ events' = <<Svc("readEmail", <<messageId>>)>> \o r.events
  /\ UNCHANGED loopVars
  /\ UNCHANGED <<pc, gmailService, lastEmailIds, lastSearchResults, labelsCache,
                 geminiService, mcpGmail, serverLabels>>

callTool_read_email ==
  /\ pc = "loop"
  /\ Idle
  /\ \E token \in ReadTokens, f \in 0..1 :
       LET messageId == ResolveMessageId(token, lastEmailIds, lastReadEmailId)
           r == readEmail(GroqReady, messageId, f)
       IN  /\ lastReadEmailId' = IF r.ok THEN messageId ELSE lastReadEmailId
           /\ call' = Call("groq", "read_email", [messageId |-> token],
                           [lastReadEmailId |-> lastReadEmailId], Outcome(r), r.value)
           /\ events' = <<Svc("readEmail", <<messageId>>)>> \o r.events
  /\ UNCHANGED loopVars
  /\ UNCHANGED <<pc, gmailService, lastEmailIds, lastSearchResults, labelsCache,
                 geminiService, mcpGmail, serverLabels>>

\* modify_labels asking for a confirmation before it removes INBOX
callTool_modify_labels_ConfirmsArchive(Args) ==
  /\ pc = "loop"
  /\ Idle
  /\ \E arg \in {a[1] : a \in Args}, f \in 0..1 :
     \E labels \in {a[2] : a \in {b \in Args : b[1] = arg}} :
     \E oa \in RefreshOutcomes(labels[1], labelsCache, GroqReady, IsSystemLabel) :
       LET messageIds == ResolveMessageIds(arg, lastEmailIds, lastReadEmailId)
           a == ConvertLabels(labels[1], labelsCache, serverLabels, GroqReady,
                              oa.failed, oa.early)
       IN  \E or \in RefreshOutcomes(labels[2], a.cache, GroqReady, IsSystemLabel) :
             LET b == ConvertLabels(labels[2], a.cache, serverLabels, GroqReady,
                                    or.failed, or.early)
                 r == modifyLabels(GroqReady, messageIds, a.ids, b.ids, f)
                 asked == IF \E i \in DOMAIN b.ids : b.ids[i] = S_INBOX
                          THEN <<Prompt("Archive emails", TRUE)>> ELSE <<>>
             IN  /\ labelsCache' = b.cache
                 /\ call' = Call("groq", "modify_labels",
                                 [messageIds |-> arg, addLabels |-> labels[1],
                                  removeLabels |-> labels[2]],
                                 [labelsCache |-> labelsCache, midCache |-> a.cache,
                                  refreshes |-> <<oa, or>>],
                                 Outcome(r), r.value)
                 /\ events' = a.events \o b.events \o asked
                              \o <<Svc("modifyLabels", <<messageIds, a.ids, b.ids>>)>>
                              \o r.events
  /\ UNCHANGED loopVars
  /\ UNCHANGED <<pc, gmailService, lastEmailIds, lastSearchResults, lastReadEmailId,
                 geminiService, mcpGmail, serverLabels>>

callTool_modify_labels(Args) ==
  /\ pc = "loop"
  /\ Idle
  /\ \E arg \in {a[1] : a \in Args}, f \in 0..1 :
     \E labels \in {a[2] : a \in {b \in Args : b[1] = arg}} :
     \E oa \in RefreshOutcomes(labels[1], labelsCache, GroqReady, IsSystemLabel) :
       LET messageIds == ResolveMessageIds(arg, lastEmailIds, lastReadEmailId)
           a == ConvertLabels(labels[1], labelsCache, serverLabels, GroqReady,
                              oa.failed, oa.early)
       IN  \E or \in RefreshOutcomes(labels[2], a.cache, GroqReady, IsSystemLabel) :
             LET b == ConvertLabels(labels[2], a.cache, serverLabels, GroqReady,
                                    or.failed, or.early)
                 r == modifyLabels(GroqReady, messageIds, a.ids, b.ids, f)
             IN  /\ labelsCache' = b.cache
                 /\ call' = Call("groq", "modify_labels",
                                 [messageIds |-> arg, addLabels |-> labels[1],
                                  removeLabels |-> labels[2]],
                                 [labelsCache |-> labelsCache, midCache |-> a.cache,
                                  refreshes |-> <<oa, or>>],
                                 Outcome(r), r.value)
                 /\ events' = a.events \o b.events
                              \o <<Svc("modifyLabels", <<messageIds, a.ids, b.ids>>)>>
                              \o r.events
  /\ UNCHANGED loopVars
  /\ UNCHANGED <<pc, gmailService, lastEmailIds, lastSearchResults, lastReadEmailId,
                 geminiService, mcpGmail, serverLabels>>

\* Array.prototype.includes
includes(arr, v) == \E i \in DOMAIN arr : arr[i] = v

\* create_filter: the filter needs the user's confirmation
FilterNeedsConfirm(action) ==
  Has(action, "removeLabelIds") /\ includes(action.removeLabelIds, S_INBOX)

callTool_create_filter ==
  /\ pc = "loop"
  /\ Idle
  /\ \E add \in FilterAdds, remove \in FilterRemoves, answer \in BOOLEAN, f \in 0..1 :
     \E o \in RefreshOutcomes(IF add = Absent THEN <<>> ELSE add[1], labelsCache,
                              GroqReady, IsFilterSystemLabel) :
       LET args == [criteria |-> FilterCriteria, action |-> FilterActionOf(add, remove)]
           c == ConvertFilterLabels(IF add = Absent THEN <<>> ELSE add[1], labelsCache,
                                    serverLabels, GroqReady, o.failed, o.early)
           action == IF add = Absent THEN args.action
                     ELSE FilterActionOf(Present(c.ids), remove)
           ask == FilterNeedsConfirm(action)
           asked == IF ask THEN <<Prompt("Create filter that archives emails", answer)>>
                    ELSE <<>>
           r == createFilter(GroqReady, args.criteria, action, f)
           before == [labelsCache |-> labelsCache, refreshes |-> <<o>>]
       IN  /\ labelsCache' = c.cache
           /\ IF ~c.ok
              THEN /\ call' = Call("groq", "create_filter", args, before, "error",
                                   [error |-> "Label not found"])
                   /\ events' = c.events
              ELSE IF ask /\ ~answer
              THEN /\ call' = Call("groq", "create_filter", args, before, "ok",
                                   [cancelled |-> TRUE])
                   /\ events' = c.events \o asked
              ELSE /\ call' = Call("groq", "create_filter", args, before,
                                   Outcome(r), r.value)
                   /\ events' = c.events \o asked
                                \o <<Svc("createFilter", <<args.criteria, action>>)>>
                                \o r.events
  /\ UNCHANGED loopVars
  /\ UNCHANGED <<pc, gmailService, lastEmailIds, lastSearchResults, lastReadEmailId,
                 geminiService, mcpGmail, serverLabels>>

\* BatchPrompts with the archive check left out
BatchPrompts_DeleteOnly(operation, answer) ==
  IF operation = "delete" THEN <<Prompt("Batch delete emails", answer)>> ELSE <<>>

\* batch_operation: the prompts shown for an operation, with the user's answer
BatchPrompts(operation, answer) ==
  (IF operation = "delete" THEN <<Prompt("Batch delete emails", answer)>> ELSE <<>>)
  \o (IF operation = "archive" THEN <<Prompt("Batch archive emails", answer)>> ELSE <<>>)

callTool_batch_operation ==
  /\ pc = "loop"
  /\ Idle
  /\ \E Q \in Queries, operation \in Operations, answer \in BOOLEAN, f \in Fails :
       LET args == [query |-> Q, operation |-> operation]
           asked == BatchPrompts(operation, answer)
           r == batchOperation(GroqReady, Q, operation, f)
       IN  IF asked # <<>> /\ ~answer
           THEN /\ call' = Call("groq", "batch_operation", args, <<>>, "ok",
                                [cancelled |-> TRUE, operation |-> operation])
                /\ events' = asked
           ELSE /\ call' = Call("groq", "batch_operation", args, <<>>,
                                Outcome(r), r.value)
                /\ events' = asked \o <<Svc("batchOperation", <<Q, operation>>)>>
                             \o r.events
  /\ UNCHANGED loopVars
  /\ UNCHANGED <<pc, gmailService, lastEmailIds, lastSearchResults, lastReadEmailId,
                 labelsCache, geminiService, mcpGmail, serverLabels>>

\* confirm_dangerous_action: the model itself asks for a confirmation; the
\* answer is the result of the call
ConfirmActions == {"Archive emails", "Delete emails"}

callTool_confirm_dangerous_action ==
  /\ pc = "loop"
  /\ Idle
  /\ \E action \in ConfirmActions, answer \in BOOLEAN :
       /\ call' = Call("groq", "confirm_dangerous_action",
                       [action |-> action, details |-> "details"], <<>>, "ok",
                       [confirmed |-> answer])
       /\ events' = <<Prompt(action, answer)>>
  /\ UNCHANGED loopVars
  /\ UNCHANGED <<groqVars, geminiService, mcpGmail, serverLabels>>

callTool_list_labels ==
  /\ pc = "loop"
  /\ Idle
  /\ \E f \in 0..1 :
       LET r == listLabels(GroqReady, serverLabels, f)
       IN  /\ labelsCache' = IF r.ok THEN r.value ELSE labelsCache
           /\ call' = Call("groq", "list_labels", <<>>, <<>>, Outcome(r), r.value)
           /\ events' = <<Svc("listLabels", <<>>)>> \o r.events
  /\ UNCHANGED loopVars
  /\ UNCHANGED <<pc, gmailService, lastEmailIds, lastSearchResults, lastReadEmailId,
                 geminiService, mcpGmail, serverLabels>>

callTool_create_label ==
  /\ pc = "loop"
  /\ Idle
  /\ \E name \in CreateNames, f \in 0..1, f2 \in 0..1 :
       LET r == createLabel(GroqReady, serverLabels, name, f)
           server == IF r.ok THEN Append(serverLabels, r.value) ELSE serverLabels
           c == refreshLabelsCache(GroqReady, labelsCache, server, f2)
       IN  /\ serverLabels' = server
           /\ labelsCache' = IF r.ok THEN c.cache ELSE labelsCache
           /\ call' = Call("groq", "create_label", [name |-> name], <<>>,
                           Outcome(r), r.value)
           /\ events' = <<Svc("createLabel", <<name>>)>> \o r.events
                        \o (IF r.ok THEN c.events ELSE <<>>)
  /\ UNCHANGED loopVars
  /\ UNCHANGED <<pc, gmailService, lastEmailIds, lastSearchResults, lastReadEmailId,
                 geminiService, mcpGmail>>

\* send_email: of the options only cc is handed on
callTool_send_email ==
  /\ pc = "loop"
  /\ Idle
  /\ \E to \in SendTos, cc \in SendCcs, bcc \in SendBccs, threadId \in ThreadIds,
        f \in 0..1 :
       LET args == SendArgs(to, cc, bcc, threadId)
           options == Options({<<"cc", Arg(args, "cc")>>})
           r == sendEmail(GroqReady, Arg(args, "to"), args.subject, args.body, options, f)
       IN  /\ call' = Call("groq", "send_email", args, <<>>, Outcome(r), r.value)
           /\ events' = <<Svc("sendEmail", <<Arg(args, "to"), args.subject, args.body,
                                             options>>)>> \o r.events
  /\ UNCHANGED loopVars
  /\ UNCHANGED <<pc, gmailService, lastEmailIds, lastSearchResults, lastReadEmailId,
                 labelsCache, geminiService, mcpGmail, serverLabels>>

\* ------------------------------------------------------------------------
\* Gemini CLI: callMCPTool. initializeGmailService constructs the service on
\* the first call and awaits initialize(); when initialize() throws, so does
\* callMCPTool, and the constructed service is kept. Every error of a case
\* is rethrown as "Tool execution failed: ...".
\* ------------------------------------------------------------------------
GeminiInitialize(authOk) ==
  IF geminiService = "null" THEN (IF authOk THEN "ready" ELSE "created")
  ELSE geminiService

callMCPTool_batch_operation ==
  /\ Idle
  /\ \E Q \in Queries, operation \in Operations, authOk \in BOOLEAN, f \in Fails :
       LET thrown == geminiService = "null" /\ ~authOk
           r == IF thrown THEN Throw("Gmail auth failed", <<>>)
                ELSE batchOperation(GeminiInitialize(authOk) = "ready", Q, operation, f)
       IN  /\ geminiService' = GeminiInitialize(authOk)
           /\ call' = Call("gemini", "batch_operation",
                           [query |-> Q, operation |-> operation], <<>>,
                           Outcome(r), r.value)
           /\ events' = IF thrown THEN <<>>
                        ELSE <<Svc("batchOperation", <<Q, operation>>)>> \o r.events
  /\ UNCHANGED loopVars
  /\ UNCHANGED <<groqVars, mcpGmail, serverLabels>>

callMCPTool_create_label ==
  /\ Idle
  /\ \E name \in CreateNames, authOk \in BOOLEAN, f \in 0..1 :
       LET thrown == geminiService = "null" /\ ~authOk
           r == IF thrown THEN Throw("Gmail auth failed", <<>>)
                ELSE createLabel(GeminiInitialize(authOk) = "ready", serverLabels, name, f)
       IN  /\ geminiService' = GeminiInitialize(authOk)
           /\ serverLabels' = IF r.ok THEN Append(serverLabels, r.value) ELSE serverLabels
           /\ call' = Call("gemini", "create_label", [name |-> name], <<>>,
                           Outcome(r), r.value)
           /\ events' = IF thrown THEN <<>>
                        ELSE <<Svc("createLabel", <<name>>)>> \o r.events
  /\ UNCHANGED loopVars
  /\ UNCHANGED <<groqVars, mcpGmail>>

\* send_email: cc and threadId are handed on
callMCPTool_send_email ==
  /\ Idle
  /\ \E to \in SendTos, cc \in SendCcs, bcc \in SendBccs, threadId \in ThreadIds,
        authOk \in BOOLEAN, f \in 0..1 :
       LET args == SendArgs(to, cc, bcc, threadId)
           options == Options({<<"cc", Arg(args, "cc")>>,
                               <<"threadId", Arg(args, "threadId")>>})
           thrown == geminiService = "null" /\ ~authOk
           r == IF thrown THEN Throw("Gmail auth failed", <<>>)
                ELSE sendEmail(GeminiInitialize(authOk) = "ready", Arg(args, "to"),
                               args.subject, args.body, options, f)
       IN  /\ geminiService' = GeminiInitialize(authOk)
           /\ call' = Call("gemini", "send_email", args, <<>>, Outcome(r), r.value)
           /\ events' = IF thrown THEN <<>>
                        ELSE <<Svc("sendEmail", <<Arg(args, "to"), args.subject,
                                                 args.body, options>>)>> \o r.events
  /\ UNCHANGED loopVars
  /\ UNCHANGED <<groqVars, mcpGmail, serverLabels>>

\* ------------------------------------------------------------------------
\* MCP server: the tools/call request handler. The service is initialized
\* on demand, the arguments are validated against the tool's schema, and
\* every error becomes an isError result.
\* ------------------------------------------------------------------------
\* BatchOperationSchema: operation is one of the enum's values
BatchOperationEnum == {"archive", "delete", "markRead", "markUnread", "star", "unstar"}

tools_call_batch_operation ==
  /\ Idle
  /\ \E Q \in Queries, operation \in Operations, authOk \in BOOLEAN, f \in Fails :
       LET ready == mcpGmail \/ authOk
           valid == operation \in BatchOperationEnum
           r == IF ~ready THEN Throw("Gmail auth failed", <<>>)
                ELSE IF ~valid THEN Throw("Invalid arguments", <<>>)
                ELSE batchOperation(ready, Q, operation, f)
       IN  /\ mcpGmail' = ready
           /\ call' = Call("mcp", "batch_operation",
                           [query |-> Q, operation |-> operation], <<>>,
                           Outcome(r), r.value)
           /\ events' = IF ready /\ valid
                        THEN <<Svc("batchOperation", <<Q, operation>>)>> \o r.events
                        ELSE <<>>
  /\ UNCHANGED loopVars
  /\ UNCHANGED <<groqVars, geminiService, serverLabels>>

tools_call_create_label ==
  /\ Idle
  /\ \E name \in CreateNames, authOk \in BOOLEAN, f \in 0..1 :
       LET ready == mcpGmail \/ authOk
           r == IF ~ready THEN Throw("Gmail auth failed", <<>>)
                ELSE createLabel(ready, serverLabels, name, f)
       IN  /\ mcpGmail' = ready
           /\ serverLabels' = IF r.ok THEN Append(serverLabels, r.value) ELSE serverLabels
           /\ call' = Call("mcp", "create_label", [name |-> name], <<>>,
                           Outcome(r), r.value)
           /\ events' = IF ready THEN <<Svc("createLabel", <<name>>)>> \o r.events
                        ELSE <<>>
  /\ UNCHANGED loopVars
  /\ UNCHANGED <<groqVars, geminiService>>

\* send_email: validated against SendEmailSchema, then handed to the handler
\* with cc, bcc and threadId
tools_call_send_email ==
  /\ Idle
  /\ \E to \in SendTos, cc \in SendCcs, bcc \in SendBccs, threadId \in ThreadIds,
        authOk \in BOOLEAN, f \in 0..1 :
       LET args == SendArgs(to, cc, bcc, threadId)
           options == Options({<<"cc", Arg(args, "cc")>>, <<"bcc", Arg(args, "bcc")>>,
                               <<"threadId", Arg(args, "threadId")>>})
           ready == mcpGmail \/ authOk
           valid == SendEmailValid(args)
           r == IF ~ready THEN Throw("Gmail auth failed", <<>>)
                ELSE IF ~valid THEN Throw("Invalid arguments", <<>>)
                ELSE sendEmail(ready, Arg(args, "to"), args.subject, args.body, options, f)
       IN  /\ mcpGmail' = ready
           /\ call' = Call("mcp", "send_email", args, <<>>, Outcome(r), r.value)
           /\ events' = IF ready /\ valid
                        THEN <<Svc("sendEmail", <<Arg(args, "to"), args.subject,
                                                 args.body, options>>)>> \o r.events
                        ELSE <<>>
  /\ UNCHANGED loopVars
  /\ UNCHANGED <<groqVars, geminiService, serverLabels>>

\* ------------------------------------------------------------------------
\* GmailService called directly (as the handlers and the tests call it), on
\* the service instance of the MCP server
\* ------------------------------------------------------------------------
\* an optional parameter with a default value
DefaultTo(opt, d) == IF opt = Absent THEN d ELSE opt[1]

ServiceIdArgs == {<<>>, <<Id_m1>>, <<Id_m1, Id_2b>>, <<Id_m1, Id_x9>>,
                  <<Id_x9, Id_m1, Id_1a>>, <<Id_m1, Id_m1>>}
ServiceAdds == {Absent, Present(<<S_STARRED>>)}
ServiceRemoves == {Absent, Present(<<>>), Present(<<S_UNREAD>>)}

\* the list responses batchOperation is given: the matches of a query on
\* the modelled mailbox, and long responses of MaxListed - 1 and MaxListed
\* ids; the program asks for BatchListMax ids and takes what the response
\* holds
ListResponses ==
  {[q |-> Q, listed |-> Matching(Q)] : Q \in Queries}
  \cup {[q |-> Range(Bulk(n)), listed |-> Bulk(n)] : n \in {MaxListed - 1, MaxListed}}

ServiceCall(method, args, f, r) ==
  /\ call' = Call("service", method, args, [f |-> f, ready |-> mcpGmail],
                  Outcome(r), r.value)
  /\ events' = r.events

GmailService_initialize ==
  /\ Idle
  /\ ~mcpGmail
  /\ \E authOk \in BOOLEAN :
       /\ mcpGmail' = authOk
       /\ call' = Call("service", "initialize", <<>>, [f |-> 0, ready |-> mcpGmail],
                       IF authOk THEN "ok" ELSE "error", <<>>)
  /\ events' = <<>>
  /\ UNCHANGED loopVars
  /\ UNCHANGED <<groqVars, geminiService, serverLabels>>

\* the list response holds at most maxResults ids, as Gmail answers, or
\* every match, as the mocked API of the tests answers; the metadata
\* requests are answered in any order
GmailService_searchEmails ==
  /\ Idle
  /\ \E Q \in Queries, maxResults \in 1..MaxResults, f \in Fails :
     \E listed \in {Matching(Q), Take(Matching(Q), maxResults)} :
     \E order \in Permutations(1..Len(Take(listed, maxResults))) :
       LET r == searchEmailsOn(mcpGmail, Q, listed, maxResults, f, order)
       IN  /\ call' = Call("service", "searchEmails",
                           [query |-> Q, maxResults |-> maxResults],
                           [f |-> f, ready |-> mcpGmail, listed |-> listed,
                            order |-> order],
                           Outcome(r), r.value)
           /\ events' = r.events
  /\ UNCHANGED loopVars
  /\ UNCHANGED <<groqVars, geminiService, mcpGmail, serverLabels>>

\* MIME parts: text/plain and text/html leaves, a file with an attachment
\* id, an inline image whose filename comes without attachment id, and
\* multipart containers of them
Leaf(mimeType, data) == [mimeType |-> mimeType, body |-> [data |-> data]]
File(mimeType, filename, attachmentId) ==
  [mimeType |-> mimeType, filename |-> filename, body |-> [attachmentId |-> attachmentId]]
Multi(mimeType, parts) == [mimeType |-> mimeType, parts |-> parts]
PlainA == Leaf("text/plain", "QQ==")
PlainB == Leaf("text/plain", "Qg==")
Html == Leaf("text/html", "SA==")
Pdf == File("application/pdf", "document.pdf", "att-123")
Inline == [mimeType |-> "image/jpeg", filename |-> "image.jpg", body |-> [data |-> "SA=="]]
Leaves == {PlainA, PlainB, Html, Pdf, Inline}
Containers ==
  {Multi("multipart/alternative", <<PlainA, Html>>),
   Multi("multipart/alternative", <<Html>>),
   Multi("multipart/mixed", <<Pdf>>),
   Multi("multipart/mixed", <<PlainB, Pdf>>),
   Multi("multipart/mixed", <<Multi("multipart/alternative", <<Html, PlainA>>), Pdf>>)}

\* the payloads of the messages read: single-part ones with or without
\* body data, and multipart ones of at most MaxParts top-level parts, with
\* or without body data of their own
Payloads ==
  {Leaf("text/plain", "VA=="), [mimeType |-> "text/plain", body |-> [size |-> 0]]}
  \cup {Multi("multipart/mixed", parts) :
          parts \in SeqsUpTo(Leaves \cup Containers, MaxParts)}
  \cup {[mimeType |-> "multipart/mixed", body |-> [data |-> "VA=="], parts |-> parts] :
          parts \in {<<>>, <<Html>>, <<PlainA>>, <<Multi("multipart/mixed", <<Pdf>>)>>}}

\* the messages the account can hold under an id
MessagesOf(messageId) ==
  IF messageId \notin AccountIds THEN {MessageOf(messageId)}
  ELSE {[id |-> messageId, payload |-> payload] : payload \in Payloads}
       \cup {[id |-> messageId, snippet |-> <<"s">>, payload |-> payload] :
               payload \in Payloads}

GmailService_readEmail ==
  /\ Idle
  /\ \E messageId \in {Id_m1, Id_x9}, f \in 0..1 :
     \E message \in MessagesOf(messageId) :
       ServiceCall("readEmail", [messageId |-> messageId, message |-> message], f,
                   readEmailOf(mcpGmail, messageId, message, f))
  /\ UNCHANGED loopVars
  /\ UNCHANGED <<groqVars, geminiService, mcpGmail, serverLabels>>

GmailService_modifyLabels ==
  /\ Idle
  /\ \E messageIds \in ServiceIdArgs, add \in ServiceAdds, remove \in ServiceRemoves,
        f \in Fails :
       ServiceCall("modifyLabels",
                   [messageIds |-> messageIds, addLabels |-> add, removeLabels |-> remove],
                   f,
                   modifyLabels(mcpGmail, messageIds, DefaultTo(add, <<>>),
                                DefaultTo(remove, <<>>), f))
  /\ UNCHANGED loopVars
  /\ UNCHANGED <<groqVars, geminiService, mcpGmail, serverLabels>>

GmailService_sendEmail ==
  /\ Idle
  /\ \E to \in {Present(<<A_alice>>), Present(<<A_alice, A_bob>>)}, cc \in SendCcs,
        threadId \in ThreadIds, f \in 0..1 :
       LET options == Options({<<"cc", cc>>, <<"threadId", threadId>>})
       IN  ServiceCall("sendEmail",
                       [to |-> to[1], subject |-> Subject, body |-> Body,
                        options |-> options],
                       f, sendEmail(mcpGmail, to, Subject, Body, options, f))
  /\ UNCHANGED loopVars
  /\ UNCHANGED <<groqVars, geminiService, mcpGmail, serverLabels>>

GmailService_batchOperation ==
  /\ Idle
  /\ \E resp \in ListResponses, operation \in Operations, f \in Fails :
       ServiceCall("batchOperation",
                   [query |-> resp.q, operation |-> operation, listed |-> resp.listed],
                   f,
                   batchOperationOn(mcpGmail, resp.q, resp.listed, operation, f))
  /\ UNCHANGED loopVars
  /\ UNCHANGED <<groqVars, geminiService, mcpGmail, serverLabels>>

GmailService_listLabels ==
  /\ Idle
  /\ \E f \in 0..1 :
       ServiceCall("listLabels", <<>>, f, listLabels(mcpGmail, serverLabels, f))
  /\ UNCHANGED loopVars
  /\ UNCHANGED <<groqVars, geminiService, mcpGmail, serverLabels>>

GmailService_createLabel ==
  /\ Idle
  /\ \E name \in CreateNames, f \in 0..1 :
       LET r == createLabel(mcpGmail, serverLabels, name, f)
       IN  /\ ServiceCall("createLabel", [name |-> name], f, r)
           /\ serverLabels' = IF r.ok THEN Append(serverLabels, r.value)
                               ELSE serverLabels
  /\ UNCHANGED loopVars
  /\ UNCHANGED <<groqVars, geminiService, mcpGmail>>

GmailService_createFilter ==
  /\ Idle
  /\ \E add \in {Absent, Present(<<L_Label_1>>)}, remove \in {Absent, Present(<<S_INBOX>>)},
        f \in 0..1 :
       ServiceCall("createFilter",
                   [criteria |-> FilterCriteria, action |-> FilterActionOf(add, remove)],
                   f,
                   createFilter(mcpGmail, FilterCriteria, FilterActionOf(add, remove), f))
  /\ UNCHANGED loopVars
  /\ UNCHANGED <<groqVars, geminiService, mcpGmail, serverLabels>>

\* ------------------------------------------------------------------------
\* Specifications
\* ------------------------------------------------------------------------
\* the three front-ends on one Gmail account
Next ==
  \/ Start
  \/ Return
  \/ callTool_search_emails
  \/ callTool_read_email
  \/ callTool_modify_labels(ModifyIdArgs \cup ModifyLabelArgs)
  \/ callTool_create_filter
  \/ callTool_batch_operation
  \/ callTool_list_labels
  \/ callTool_create_label
  \/ callMCPTool_batch_operation
  \/ callMCPTool_create_label
  \/ tools_call_batch_operation
  \/ tools_call_create_label
  \/ callTool_send_email
  \/ callMCPTool_send_email
  \/ tools_call_send_email
  \/ GmailService_initialize
  \/ GmailService_searchEmails
  \/ GmailService_readEmail
  \/ GmailService_modifyLabels
  \/ GmailService_sendEmail
  \/ GmailService_batchOperation
  \/ GmailService_listLabels
  \/ GmailService_createLabel
  \/ GmailService_createFilter

Spec == Init /\ [][Next]_vars

\* read_email in the Groq CLI session
NextRead ==
  \/ Start
  \/ Return
  \/ callTool_search_emails
  \/ callTool_read_email

SpecRead == Init /\ [][NextRead]_vars

\* modify_labels in the Groq CLI session: the messages it names
NextModify ==
  \/ Start
  \/ Return
  \/ callTool_search_emails
  \/ callTool_read_email
  \/ callTool_modify_labels(ModifyIdArgs)

SpecModify == Init /\ [][NextModify]_vars

\* modify_labels in the Groq CLI session: the labels it names, with labels
\* created meanwhile by a client of the MCP server
NextLabels ==
  \/ Start
  \/ Return
  \/ callTool_modify_labels(ModifyLabelArgs)
  \/ callTool_list_labels
  \/ tools_call_create_label

SpecLabels == Init /\ [][NextLabels]_vars

\* the destructive operations on the three dispatch paths
NextGate ==
  \/ Start
  \/ Return
  \/ callTool_create_filter
  \/ callTool_batch_operation
  \/ callMCPTool_batch_operation
  \/ tools_call_batch_operation

SpecGate == Init /\ [][NextGate]_vars

\* send_email on the three dispatch paths
NextSend ==
  \/ Start
  \/ Return
  \/ callTool_send_email
  \/ callMCPTool_send_email
  \/ tools_call_send_email

SpecSend == Init /\ [][NextSend]_vars

\* the methods of GmailService, called directly
NextService ==
  \/ GmailService_initialize
  \/ Return
  \/ GmailService_searchEmails
  \/ GmailService_readEmail
  \/ GmailService_modifyLabels
  \/ GmailService_sendEmail
  \/ GmailService_batchOperation
  \/ GmailService_listLabels
  \/ GmailService_createLabel
  \/ GmailService_createFilter

SpecService == Init /\ [][NextService]_vars

\* ------------------------------------------------------------------------
\* Properties
\* ------------------------------------------------------------------------
IsSvc(e, methods) == e.type = "svc" /\ e.method \in methods
IsRequest(e, apis) == e.type = "request" /\ e.api \in apis
IsPrompt(e, answer) == e.type = "prompt" /\ e.answer = answer
\* the user has granted a confirmation before the j-th event of the call
GrantedBefore(j) == \E i \in 1..(j - 1) : IsPrompt(events[i], TRUE)
Declined == \E i \in DOMAIN events : IsPrompt(events[i], FALSE)
Cancelled == call.outcome = "ok" /\ Has(call.value, "cancelled") /\ call.value.cancelled

BatchIsDestructive == call.tool = "batch_operation"
                      /\ call.args.operation \in {"delete", "archive"}
FilterRemoves_INBOX == call.tool = "create_filter"
                       /\ Has(call.args.action, "removeLabelIds")
                       /\ \E i \in DOMAIN call.args.action.removeLabelIds :
                            call.args.action.removeLabelIds[i] = S_INBOX

\* C1: in the Groq CLI, a batch delete or archive and a create_filter whose
\* removeLabelIds contains 'INBOX' invoke batchOperation / createFilter only
\* after the user has confirmed; when the user declines, the result is
\* {cancelled: true}, not an error, and no messages.list, messages.modify,
\* messages.trash or filters.create request is issued.
C1_GroqConfirmsDestructive ==
  (call.path = "groq" /\ (BatchIsDestructive \/ FilterRemoves_INBOX)) =>
    /\ \A j \in DOMAIN events :
         IsSvc(events[j], {"batchOperation", "createFilter"}) => GrantedBefore(j)
    /\ Declined =>
         /\ Cancelled
         /\ \A j \in DOMAIN events :
              ~IsRequest(events[j], {"messages.list", "messages.modify",
                                     "messages.trash", "settings.filters.create"})

\* a batch delete that the user confirmed has trashed messages
C1_Witness ==
  /\ call.path = "groq" /\ BatchIsDestructive /\ call.args.operation = "delete"
  /\ call.outcome = "ok" /\ ~Cancelled
  /\ IsPrompt(events[1], TRUE)
  /\ \E j \in DOMAIN events : IsRequest(events[j], {"messages.trash"})

\* C2: on every dispatch path, a batch delete or archive reaches
\* batchOperation only after a confirmation has been granted for that call.
C2_EveryPathConfirms ==
  (call.path \in {"groq", "gemini", "mcp"} /\ BatchIsDestructive) =>
    \A j \in DOMAIN events : IsSvc(events[j], {"batchOperation"}) => GrantedBefore(j)

\* C3: a create_filter whose removeLabelIds names the inbox label in any
\* letter case invokes createFilter only after the user has confirmed.
C3_AnySpellingConfirms ==
  (call.path = "groq" /\ call.tool = "create_filter"
   /\ Has(call.args.action, "removeLabelIds")
   /\ \E i \in DOMAIN call.args.action.removeLabelIds :
        toUpperCase(call.args.action.removeLabelIds[i]) = S_INBOX) =>
    \A j \in DOMAIN events :
      IsRequest(events[j], {"settings.filters.create"}) => GrantedBefore(j)

\* the last call is a read_email of the Groq CLI; the id it handed to
\* GmailService.readEmail
IsRead == call.path = "groq" /\ call.tool = "read_email"
ReadId == events[1].args[1]

C5_LastIsFinal ==
  (IsRead /\ Len(lastEmailIds) > 0) =>
    /\ call.args.messageId = S_last => ReadId = lastEmailIds[Len(lastEmailIds)]
    /\ call.args.messageId = S_first => ReadId = lastEmailIds[1]

\* 'last' after a search that found three messages reads the third
C5_Witness ==
  /\ IsRead /\ call.args.messageId = S_last /\ call.outcome = "ok"
  /\ lastEmailIds = Mailbox
  /\ ReadId = Mailbox[Len(Mailbox)] /\ ReadId # lastEmailIds[1]
  /\ lastReadEmailId = ReadId

\* the decimal string of N, for one digit
Decimal(N) == <<DigitChars[N + 1]>>

\* C6: the decimal string of a positive integer N resolves to the N-th id of
\* the last search list when the list has at least N entries, and is passed
\* on as the literal token otherwise (N out of range, N = 0, empty list).
C6_PositionResolves ==
  \A N \in 0..9 :
    (IsRead /\ call.args.messageId = Decimal(N)) =>
      ReadId = IF 1 <= N /\ N <= Len(lastEmailIds) THEN lastEmailIds[N] ELSE Decimal(N)

\* '2' after a search that found at least two messages reads the second
C6_Witness ==
  /\ IsRead /\ call.args.messageId = Decimal(2) /\ Len(lastEmailIds) >= 2
  /\ ReadId = lastEmailIds[2] /\ call.outcome = "ok"

IsPositiveIntegerString(token) ==
  /\ token # <<>>
  /\ \A i \in DOMAIN token : token[i] \in Range(DigitChars)
  /\ \E i \in DOMAIN token : token[i] # "0"

\* C7: a messageId that is neither a symbolic reference nor a positive
\* integer string is handed to readEmail unchanged, whatever the context.
C7_LiteralUnchanged ==
  (IsRead /\ call.args.messageId \notin {S_first, S_last, S_latest, S_last_read}
          /\ ~IsPositiveIntegerString(call.args.messageId))
    => ReadId = call.args.messageId

\* the last call is a modify_labels of the Groq CLI; the message ids, add
\* label ids and remove label ids it handed to GmailService.modifyLabels
IsModify == call.path = "groq" /\ call.tool = "modify_labels"
Handed == events[CHOOSE j \in DOMAIN events : IsSvc(events[j], {"modifyLabels"})].args
ModifyRequests == SelectSeq(events, LAMBDA e : IsRequest(e, {"messages.modify"}))
ContextTokens == {S_those, S_all_from_search, S_last_read, S_it, S_this}

\* C8: messageIds of exactly ['those'] or ['all_from_search'] is replaced by
\* the id list of the last search, in order, also when that list is empty
\* (then no message is modified); a messageIds list that is not a single
\* recognized token is passed through unchanged.
C8_ThoseIsLastSearch ==
  IsModify =>
    /\ call.args.messageIds \in {<<S_those>>, <<S_all_from_search>>} =>
         /\ Handed[1] = lastEmailIds
         /\ Len(ModifyRequests) = (IF GroqReady THEN Len(lastEmailIds) ELSE 0)
         /\ \A i \in DOMAIN ModifyRequests : ModifyRequests[i].args.id = lastEmailIds[i]
    /\ (Len(call.args.messageIds) # 1 \/ call.args.messageIds[1] \notin ContextTokens) =>
         Handed[1] = call.args.messageIds

\* 'those' after a search that found two messages modifies these two
C8_Witness ==
  /\ IsModify /\ call.args.messageIds = <<S_those>> /\ call.outcome = "ok"
  /\ lastEmailIds = <<Id_1a, Id_2b>>
  /\ Len(ModifyRequests) = 2

\* C9: messageIds of exactly ['it'] or ['this'] becomes the singleton of
\* the last-read id when there is one, else the singleton of the first id of
\* the last search, else the empty list: the literal token is never sent.
C9_ItIsNeverLiteral ==
  (IsModify /\ call.args.messageIds \in {<<S_it>>, <<S_this>>}) =>
    Handed[1] = IF lastReadEmailId # NULL THEN <<lastReadEmailId>>
                ELSE IF Len(lastEmailIds) > 0 THEN <<lastEmailIds[1]>>
                ELSE <<>>

\* the labels of a cache whose name is the given name, letter case aside
Named(cache, name) ==
  {i \in DOMAIN cache : toLowerCase(cache[i].name) = toLowerCase(name)}
IdOf(cache, name) == cache[CHOOSE i \in Named(cache, name) : \A j \in Named(cache, name) : i <= j].id
\* an entry written without lower-case letters, or beginning with Label_
LooksLikeId(label) ==
  \/ \A i \in DOMAIN label : label[i] \notin Range(LowerChars)
  \/ (Len(label) >= 6 /\ SubSeq(label, 1, 6) = <<"L","a","b","e","l","_">>)
NeverId(label) == FALSE

\* handed is labels, in order, with every entry that PassThrough accepts
\* kept as it is and every other entry replaced by the id of the label of
\* that name, in the cache or, after the entry's refresh, in the account;
\* an entry is dropped when no label has its name, and can be dropped when
\* the cache misses it and its refresh failed; each dropped entry is warned
\* about
LabelsConverted(labels, handed, cache, failed, PassThrough(_)) ==
  LET value(i) == IF PassThrough(labels[i]) THEN labels[i]
                  ELSE IF Named(cache, labels[i]) # {} THEN IdOf(cache, labels[i])
                  ELSE IF Named(serverLabels, labels[i]) # {}
                  THEN IdOf(serverLabels, labels[i])
                  ELSE NULL
      missing  == {i \in DOMAIN labels :
                     ~PassThrough(labels[i]) /\ Named(cache, labels[i]) = {}}
      mustDrop == {i \in missing : ~GroqReady \/ Named(serverLabels, labels[i]) = {}}
      mayDrop  == mustDrop \cup (missing \cap failed)
  IN  \E D \in SUBSET mayDrop :
        /\ mustDrop \subseteq D
        /\ handed = SelectSeq([i \in DOMAIN labels |-> IF i \in D THEN NULL ELSE value(i)],
                              LAMBDA v : v # NULL)
        /\ \A i \in D : \E j \in DOMAIN events :
             events[j].type = "warn" /\ events[j].arg = labels[i]

\* the entries of a label list that trigger a refresh
Refreshing(labels, cache, PassThrough(_)) ==
  Cardinality({i \in DOMAIN labels :
                 ~PassThrough(labels[i]) /\ Named(cache, labels[i]) = {}})

\* C10 as stated: every entry of addLabels and removeLabels is replaced by
\* the id of the cached label whose name matches case-insensitively, after
\* at most one refresh per missing name; unresolved names are dropped with a
\* warning and modifyLabels is invoked with the rest.
C10_EveryNameReplaced ==
  IsModify =>
    /\ \E j \in DOMAIN events : IsSvc(events[j], {"modifyLabels"})
    /\ LabelsConverted(call.args.addLabels, Handed[2], call.before.labelsCache,
                       call.before.refreshes[1].failed, NeverId)
    /\ LabelsConverted(call.args.removeLabels, Handed[3], call.before.midCache,
                       call.before.refreshes[2].failed, NeverId)

\* C10 amended: as stated for the entries that contain a lower-case letter
\* and do not begin with 'Label_'; an entry that is entirely upper-case or
\* begins with 'Label_' is handed on as it is, without lookup or refresh.
C10_NamesReplacedIdsKept ==
  IsModify =>
    /\ Cardinality({j \in DOMAIN events : IsSvc(events[j], {"modifyLabels"})}) = 1
    /\ LabelsConverted(call.args.addLabels, Handed[2], call.before.labelsCache,
                       call.before.refreshes[1].failed, LooksLikeId)
    /\ LabelsConverted(call.args.removeLabels, Handed[3], call.before.midCache,
                       call.before.refreshes[2].failed, LooksLikeId)
    /\ Cardinality({j \in DOMAIN events : IsRequest(events[j], {"labels.list"})})
         <= Refreshing(call.args.addLabels, call.before.labelsCache, LooksLikeId)
            + Refreshing(call.args.removeLabels, call.before.midCache, LooksLikeId)

\* 'work' is found after a refresh (the cache was empty), 'Todo' is dropped
\* with a warning, and modifyLabels adds the one label that resolved
C10_Witness ==
  /\ IsModify /\ call.args.addLabels = <<L_Todo, L_work>> /\ call.outcome = "ok"
  /\ call.before.labelsCache = <<>>
  /\ Handed[2] = <<L_Label_1>>
  /\ \E j \in DOMAIN events : events[j].type = "warn" /\ events[j].arg = L_Todo
  /\ \E j \in DOMAIN ModifyRequests : ModifyRequests[j].args.addLabelIds = <<L_Label_1>>

IsCreateFilter == call.path = "groq" /\ call.tool = "create_filter"

\* C11: create_filter resolves action.addLabelIds as modify_labels resolves
\* addLabels: upper-case and 'Label_' entries pass through, names resolve
\* case-insensitively with one refresh and retry, and a name that stays
\* unresolved is dropped with a warning, so that createFilter is still
\* invoked (unless the user declines) with the labels that did resolve.
C11_FilterLabelsAsModifyLabels ==
  (IsCreateFilter /\ Has(call.args.action, "addLabelIds") /\ ~Declined) =>
    \E j \in DOMAIN events :
      /\ IsSvc(events[j], {"createFilter"})
      /\ LabelsConverted(call.args.action.addLabelIds, events[j].args[2].addLabelIds,
                         call.before.labelsCache, call.before.refreshes[1].failed,
                         LooksLikeId)

\* the last call is a direct call of the given GmailService method
IsService(method) == call.path = "service" /\ call.tool = method
\* the k-th Gmail request of the last direct call was rejected
RejectedAt(k) == RequestFails(events[k], k, call.before.f)

\* C13: a successful modifyLabels reports as modified the number of input
\* message ids, and issues exactly one messages.modify request per input id,
\* each with the same add and remove label-id lists.
C13_OneModifyPerId ==
  (IsService("modifyLabels") /\ call.outcome = "ok") =>
    /\ call.value.modified = Len(call.args.messageIds)
    /\ Len(events) = Len(call.args.messageIds)
    /\ \A i \in DOMAIN events :
         events[i] = Request("messages.modify",
                             [id |-> call.args.messageIds[i],
                              addLabelIds |-> DefaultTo(call.args.addLabels, <<>>),
                              removeLabelIds |-> DefaultTo(call.args.removeLabels, <<>>)])

\* two messages get STARRED added and UNREAD removed
C13_Witness ==
  /\ IsService("modifyLabels") /\ call.outcome = "ok"
  /\ call.args.messageIds = <<Id_m1, Id_2b>>
  /\ call.args.addLabels = Present(<<S_STARRED>>)
  /\ call.args.removeLabels = Present(<<S_UNREAD>>)
  /\ call.value.modified = 2
  /\ Len(events) = 2

\* C14: modifyLabels treats each message id on its own: a failed modify
\* request for one id does not change the outcome for the others, and the
\* reported count is the number of ids whose request succeeded, also when
\* some requests fail.
C14_CountsSucceeded ==
  (IsService("modifyLabels") /\ call.before.ready) =>
    /\ call.outcome = "ok"
    /\ call.value.modified =
         Cardinality({i \in DOMAIN call.args.messageIds : ~RejectedAt(i)})

\* the requests of the last call that modify or trash a message
Affecting == SelectSeq(events, LAMBDA e : IsRequest(e, {"messages.modify", "messages.trash"}))

\* C15 as stated: however many ids the list response holds, batchOperation
\* sends a modify or trash request to at most 100 messages and reports an
\* affected count of at most 100.
C15_AtMostHundred ==
  IsService("batchOperation") =>
    /\ Len(Affecting) <= BatchListMax
    /\ (call.outcome = "ok" => call.value.affected <= BatchListMax)

\* C15 amended: batchOperation asks its list request for at most 100 ids
\* and operates on every id the response holds: for a known operation each
\* listed id gets exactly one trash (delete) or modify (other operations)
\* request, in order, and affected is the number of listed ids.
C15_OperatesOnEveryListedId ==
  (IsService("batchOperation") /\ call.before.ready) =>
    /\ events[1] = Request("messages.list",
                           [q |-> call.args.query, maxResults |-> BatchListMax])
    /\ (~RejectedAt(1) /\ call.args.operation \in BatchOperationEnum) =>
         /\ Len(Affecting) = Len(call.args.listed)
         /\ \A i \in DOMAIN Affecting :
              /\ Affecting[i].args.id = call.args.listed[i]
              /\ Affecting[i].api = IF call.args.operation = "delete"
                                    THEN "messages.trash" ELSE "messages.modify"
    /\ call.outcome = "ok" => call.value.affected = Len(call.args.listed)

\* a list response of more than 100 ids: all of them are marked read
C15_Witness ==
  /\ IsService("batchOperation") /\ call.outcome = "ok"
  /\ call.args.operation = "markRead"
  /\ Len(call.args.listed) > BatchListMax
  /\ call.value.affected = Len(call.args.listed)
  /\ Len(Affecting) = Len(call.args.listed)

\* C16: batchOperation with an operation outside archive, delete, markRead,
\* markUnread, star, unstar always fails with an error, whether or not the
\* query matches a message.
C16_UnknownOperationFails ==
  (IsService("batchOperation") /\ call.before.ready
   /\ call.args.operation \notin BatchOperationEnum) =>
    call.outcome = "error"

\* the message with which each GmailService method reports a failure
OperationError ==
  [searchEmails   |-> "Failed to search emails",
   readEmail      |-> "Failed to read email",
   modifyLabels   |-> "Failed to modify labels",
   sendEmail      |-> "Failed to send email",
   batchOperation |-> "Failed to perform batch operation",
   listLabels     |-> "Failed to list labels",
   createLabel    |-> "Failed to create label",
   createFilter   |-> "Failed to create filter"]

\* the error at the end of the chain of causes of an error
RECURSIVE RootCause(_)
RootCause(error) == IF Has(error, "cause") THEN RootCause(error.cause) ELSE error

\* the last call names no message twice
DistinctIds ==
  IsService("modifyLabels") =>
    \A i, j \in DOMAIN call.args.messageIds :
      call.args.messageIds[i] = call.args.messageIds[j] => i = j

\* C20: when a Gmail request made by a GmailService method fails, the
\* method fails with its own operation-specific error, which keeps the cause,
\* and the failed request was issued exactly once (no retry).
C20_WrappedNotRetried ==
  (call.path = "service" /\ call.tool \in DOMAIN OperationError
   /\ \E k \in DOMAIN events : RejectedAt(k)) =>
    /\ call.outcome = "error"
    /\ call.value.error = OperationError[call.tool]
    /\ \E k \in DOMAIN events :
         RejectedAt(k) /\ RootCause(call.value) = Rejected(events[k])
    /\ DistinctIds =>
         \A k \in DOMAIN events :
           RejectedAt(k) => Cardinality({j \in DOMAIN events : events[j] = events[k]}) = 1

\* a batch star whose first modify request is rejected: the error of
\* batchOperation wraps the error of modifyLabels, which wraps the rejection
C20_Witness ==
  /\ IsService("batchOperation") /\ call.args.operation = "star"
  /\ call.before.f = 2 /\ Len(events) >= 2
  /\ call.outcome = "error"
  /\ call.value.error = "Failed to perform batch operation"
  /\ call.value.cause.error = "Failed to modify labels"
  /\ call.value.cause.cause = Rejected(events[2])

\* the data of the first text/plain leaf that has content, in a depth-first
\* traversal of the parts: <<data>>, or <<>> when there is none
RECURSIVE FirstPlainLeaf(_)
FirstPlainLeaf(parts) ==
  IF parts = <<>> THEN <<>>
  ELSE LET part == Head(parts)
           here == IF Has(part, "parts") THEN FirstPlainLeaf(part.parts)
                   ELSE IF part.mimeType = "text/plain" /\ HasData(part)
                   THEN <<part.body.data>>
                   ELSE <<>>
       IN  IF here # <<>> THEN here ELSE FirstPlainLeaf(Tail(parts))

\* every part of the tree that has a filename and an attachment id, in
\* depth-first order
RECURSIVE AllAttachments(_)
AllAttachments(parts) ==
  IF parts = <<>> THEN <<>>
  ELSE LET part == Head(parts)
       IN  (IF HasFilename(part) /\ HasAttachmentId(part)
            THEN <<[filename |-> part.filename, attachmentId |-> part.body.attachmentId]>>
            ELSE <<>>)
           \o (IF Has(part, "parts") THEN AllAttachments(part.parts) ELSE <<>>)
           \o AllAttachments(Tail(parts))

\* the last call is a readEmail that returned the message
ReadOk == IsService("readEmail") /\ call.outcome = "ok"
PartsRead == IF Has(call.args.message.payload, "parts")
             THEN call.args.message.payload.parts ELSE <<>>

\* C17: readEmail returns as body the content of the first text/plain leaf
\* of a depth-first traversal of the part tree, and only that leaf; without
\* such a leaf the top-level payload body; without that, the snippet.
C17_BodyIsFirstPlainLeaf ==
  ReadOk =>
    call.value.body =
      IF FirstPlainLeaf(PartsRead) # <<>> THEN Decode(FirstPlainLeaf(PartsRead)[1])
      ELSE IF HasData(call.args.message.payload)
      THEN Decode(call.args.message.payload.body.data)
      ELSE IF Has(call.args.message, "snippet") THEN call.args.message.snippet
      ELSE <<>>

\* C18: the attachment list of readEmail holds exactly the parts that have
\* a filename and an attachment id, wherever they are in the part tree.
C18_AttachmentsOfWholeTree ==
  ReadOk =>
    (IF Has(call.value, "attachments")
     THEN Map(call.value.attachments,
              LAMBDA a : [filename |-> a.filename, attachmentId |-> a.attachmentId])
     ELSE <<>>) = AllAttachments(PartsRead)

IsSend == call.tool = "send_email"
SendRequests == SelectSeq(events, LAMBDA e : IsRequest(e, {"messages.send"}))

\* C12: on the MCP and Groq dispatch paths, a send_email call whose
\* arguments violate the schema (to missing, or an entry of to, cc or bcc
\* that is not an e-mail address) yields an invalid-arguments error and
\* issues no Gmail request.
C12_InvalidArgumentsRejected ==
  (IsSend /\ call.path \in {"mcp", "groq"} /\ ~SendEmailValid(call.args)) =>
    /\ call.outcome = "error"
    /\ \A j \in DOMAIN events : events[j].type # "request"
    /\ ((call.path = "mcp" /\ mcpGmail) \/ (call.path = "groq" /\ GroqReady)) =>
         call.value.error = "Invalid arguments"

\* C19: a send_email call with a threadId T results in a messages.send
\* request that carries threadId T, on every dispatch path.
C19_ThreadIdPassedThrough ==
  (IsSend /\ Has(call.args, "threadId")) =>
    \A j \in DOMAIN SendRequests :
      /\ Has(SendRequests[j].args, "threadId")
      /\ SendRequests[j].args.threadId = call.args.threadId

\* ------------------------------------------------------------------------
\* The confirmation gate of the Groq CLI
\* ------------------------------------------------------------------------
\* the tools of the Groq CLI session other than modify_labels, whose calls
\* are explored in SpecModify and SpecConfirm (list_filters, which reads
\* only, is not modelled)
NextTools ==
  \/ Start
  \/ Return
  \/ callTool_search_emails
  \/ callTool_read_email
  \/ callTool_create_filter
  \/ callTool_batch_operation
  \/ callTool_confirm_dangerous_action
  \/ callTool_list_labels
  \/ callTool_create_label
  \/ callTool_send_email

SpecTools == Init /\ [][NextTools]_vars

\* the tools that change the labels of messages in bulk, with the search that
\* feeds 'those' and the tool that only asks for a confirmation
NextConfirm ==
  \/ Start
  \/ Return
  \/ callTool_search_emails
  \/ callTool_modify_labels(ModifyIdArgs)
  \/ callTool_batch_operation
  \/ callTool_confirm_dangerous_action

SpecConfirm == Init /\ [][NextConfirm]_vars

Prompted == \E i \in DOMAIN events : events[i].type = "prompt"

\* modify_labels never asks: whatever labels it is given, INBOX among the
\* removed ones included, it hands them to modifyLabels and one modify
\* request is issued for every id it resolved, for ['those'] every id of the
\* last search
ModifyIsUnconfirmed ==
  IsModify =>
    /\ ~Prompted
    /\ \E j \in DOMAIN events : IsSvc(events[j], {"modifyLabels"})
    /\ GroqReady => Len(ModifyRequests) = Len(Handed[1])
    /\ \A i \in DOMAIN ModifyRequests :
         /\ ModifyRequests[i].args.id = Handed[1][i]
         /\ ModifyRequests[i].args.removeLabelIds = Handed[3]
    /\ (call.args.messageIds = <<S_those>>) => Handed[1] = lastEmailIds
    /\ includes(call.args.removeLabels, S_INBOX) => includes(Handed[3], S_INBOX)

\* C30 as stated: in the Groq CLI a confirmation is asked for only in
\* batch_operation and create_filter calls, and modify_labels is executed
\* without one for every label set.
C30_OnlyBatchAndFilterConfirm ==
  /\ (call.path = "groq" /\ Prompted) => call.tool \in {"batch_operation", "create_filter"}
  /\ ModifyIsUnconfirmed

\* C30, amended: a confirmation is asked for only in batch_operation and
\* create_filter calls and in calls of the confirm_dangerous_action tool,
\* which does nothing else; modify_labels is executed without one for every
\* label set, INBOX among the removed labels included (written 'INBOX', or a
\* name such as 'inbox' that the label cache resolves to it).
C30_ModifyLabelsUnconfirmed ==
  /\ (call.path = "groq" /\ Prompted) =>
       call.tool \in {"batch_operation", "create_filter", "confirm_dangerous_action"}
  /\ (call.path = "groq" /\ call.tool = "confirm_dangerous_action") =>
       \A i \in DOMAIN events : events[i].type = "prompt"
  /\ ModifyIsUnconfirmed

C30_Witness ==
  /\ IsModify /\ call.outcome = "ok" /\ ~Prompted
  /\ call.args.messageIds = <<S_those>>
  /\ call.args.removeLabels = <<L_inbox>>
  /\ Len(lastEmailIds) >= 2
  /\ Len(ModifyRequests) = Len(lastEmailIds)
  /\ \A i \in DOMAIN ModifyRequests :
       /\ ModifyRequests[i].args.id = lastEmailIds[i]
       /\ ModifyRequests[i].args.removeLabelIds = <<S_INBOX>>

IsSearch == call.path = "groq" /\ call.tool = "search_emails"

\* C27: in the Groq session context a search_emails call that fails leaves
\* lastEmailIds and lastSearchResults as they were and a read_email call that
\* fails leaves lastReadEmailId as it was; lastReadEmailId changes only to
\* the id that a succeeding readEmail was called with, and lastEmailIds is
\* always the sequence of the ids of lastSearchResults.
C27_FailedCallsKeepContext ==
  /\ [](lastEmailIds = Map(lastSearchResults, LAMBDA m : m.id))
  /\ [][/\ (IsSearch' /\ call'.outcome = "error") =>
             UNCHANGED <<lastEmailIds, lastSearchResults>>
        /\ (IsRead' /\ call'.outcome = "error") => UNCHANGED lastReadEmailId
        /\ lastReadEmailId' # lastReadEmailId =>
             /\ IsRead' /\ call'.outcome = "ok"
             /\ lastReadEmailId' = ReadId'
             /\ \E i \in DOMAIN events' :
                  /\ IsRequest(events'[i], {"messages.get"})
                  /\ events'[i].args.id = lastReadEmailId']_vars

\* a read that fails after a search and a read that succeeded
C27_Witness ==
  /\ IsRead /\ call.outcome = "error"
  /\ lastEmailIds # <<>>
  /\ call.before.lastReadEmailId # NULL
  /\ ReadId # call.before.lastReadEmailId
  /\ lastReadEmailId = call.before.lastReadEmailId

\* a tool call of a Groq session whose start() could not authenticate
AfterFailedStart == call.path = "groq" /\ call.tool # "start" /\ gmailService = "created"
CallsService == \E j \in DOMAIN events : events[j].type = "svc"
NoGmailRequest == \A i \in DOMAIN events : events[i].type # "request"
\* once the loop is entered, the initializeGmailService() that callTool begins
\* with finds this.gmailService set and attempts nothing
NoLaterAttempt ==
  pc = "loop" =>
    \A authOk \in BOOLEAN :
      initializeGmailService(gmailService, authOk) =
        [service |-> gmailService, attempted |-> FALSE]

IsServiceSearch == call.path = "service" /\ call.tool = "searchEmails"

\* C26: a searchEmails call that succeeds returns one message for each of the
\* first maxResults ids of the list response, in the order of that response,
\* in whatever order the metadata requests were answered: never more than
\* maxResults messages.
C26_ListOrderKept ==
  (IsServiceSearch /\ call.outcome = "ok") =>
    /\ Len(call.value.messages) <= call.args.maxResults
    /\ Map(call.value.messages, LAMBDA m : m.id)
         = Take(call.before.listed, call.args.maxResults)

\* a response of three ids cut to two, the second answered first
C26_Witness ==
  /\ IsServiceSearch /\ call.outcome = "ok"
  /\ call.before.listed = Mailbox /\ call.args.maxResults = 2
  /\ call.before.order = <<2, 1>>
  /\ Map(call.value.messages, LAMBDA m : m.id) = <<Id_m1, Id_1a>>

\* ------------------------------------------------------------------------
\* The read loops of the CLI front-ends
\* ------------------------------------------------------------------------
\* most commands that one session hands to the model
MaxTurns == 11
\* most tool calls in one response of the model
MaxToolCalls == 2
\* most commands that a Gemini or Anthropic session hands to the model
MaxContextTurns == 7
\* most processCommand executions in progress at once
MaxInFlight == 2

\* most commands of a session whose progress is checked
MaxFairTurns == 2

\* the conversation history keeps this many entries
HistoryLimit == 20
AnthropicHistoryLimit == 10

\* String.prototype.trim
WhiteSpace == {" ", "\t"}
RECURSIVE trimStart(_)
trimStart(s) == IF s # <<>> /\ Head(s) \in WhiteSpace THEN trimStart(Tail(s)) ELSE s
RECURSIVE trimEnd(_)
trimEnd(s) ==
  IF s # <<>> /\ s[Len(s)] \in WhiteSpace THEN trimEnd(SubSeq(s, 1, Len(s) - 1)) ELSE s
\* trim removing only the leading white space
trim_Start(s) == trimStart(s)

trim(s) == trimEnd(trimStart(s))

\* slice keeping the first n elements
sliceLast_KeepsFirst(arr, n) ==
  IF Len(arr) <= n THEN arr ELSE SubSeq(arr, 1, n)

\* Array.prototype.slice(-n)
sliceLast(arr, n) ==
  IF Len(arr) <= n THEN arr ELSE SubSeq(arr, Len(arr) - n + 1, Len(arr))

S_exit == <<"e","x","i","t">>
S_quit == <<"q","u","i","t">>
S_help == <<"h","e","l","p">>
S_clear == <<"c","l","e","a","r">>
\* a request in natural language
S_hi == <<"h","i">>

\* the lines typed at the prompt
Lines == {<<>>, <<" ">>, S_exit, <<" ","Q","u","i","t"," ">>, <<"H","E","L","P">>,
          <<" ","h","e","l","p">>, S_clear, <<"C","l","e","a","r","\t">>, S_hi}

\* events of a step of a read loop
Line(raw) == [type |-> "line", input |-> raw]
Signal(name) == [type |-> "signal", name |-> name]
Shown(text) == [type |-> "shown", text |-> text]

\* an entry of the conversation history, without its text: seq numbers the
\* entries and turn the commands, in the order they were appended
Entry(seq, turn, role) == [seq |-> seq, turn |-> turn, role |-> role]
NextSeq(history) == IF history = <<>> THEN 1 ELSE history[Len(history)].seq + 1
NextTurn(history) == IF history = <<>> THEN 1 ELSE history[Len(history)].turn + 1

\* a processCommand execution in progress: awaiting the model's response
\* (stage "model"), or executing the tool calls of the response ("tools"),
\* done holding the outcome of each tool call that was executed
Command(input, stage, toolCalls, done) ==
  [input |-> input, stage |-> stage, toolCalls |-> toolCalls, done |-> done]

\* a tool call of a response: the tool's name, and whether its arguments
\* are JSON that parses
ToolCall(name, parses) == [name |-> name, parses |-> parses]
ToolCallsOf(Names) ==
  {ToolCall(n, TRUE) : n \in Names} \cup {ToolCall("create_label", FALSE)}

\* Groq processCommand skipping the history when a tool call has failed
AppendTurn_UnlessFailed(history, input, content, done) ==
  IF \E i \in DOMAIN done : done[i].outcome = "error" THEN history
  ELSE LET n == NextTurn(history)
           k == NextSeq(history)
           h == history \o <<Entry(k, n, "user"),
                             Entry(k + 1, n, "assistant")>>
       IN  IF Len(h) > HistoryLimit THEN sliceLast(h, HistoryLimit) ELSE h

\* Groq processCommand, after the tool calls: the user's input and the
\* assistant's reply are appended and the history is cut to its last entries
AppendTurn(history, input, content, done) ==
  LET n == NextTurn(history)
      k == NextSeq(history)
      h == history \o <<Entry(k, n, "user"),
                        Entry(k + 1, n, "assistant")>>
  IN  IF Len(h) > HistoryLimit THEN sliceLast(h, HistoryLimit) ELSE h

\* Ctrl+C: the SIGINT handler of the Groq and Gemini CLIs exits with code 0.
\* The process ends, and with it whatever it was awaiting. The Anthropic
\* CLI registers no handler
SIGINT ==
  /\ pc # "anthropic"
  /\ exitCode = NULL
  /\ exitCode' = Present(0)
  /\ events' = <<Signal("SIGINT")>>
  /\ commands' = <<>>
  /\ call' = NoCall
  /\ UNCHANGED <<groqVars, geminiService, mcpGmail, serverLabels,
                 conversationHistory, context>>

\* start(), one turn of the main loop up to its first await after the
\* prompt: an empty line is skipped, exit and quit end the process, help and
\* clear are answered locally, and any other line begins processCommand,
\* which sends the history and the line to the model
start_loop ==
  /\ pc = "loop"
  /\ exitCode = NULL
  /\ Idle
  /\ commands = <<>>
  /\ \E raw \in Lines :
       LET input == trim(raw)
       IN  IF ~Truthy(input)
           THEN /\ events' = <<Line(raw)>>
                /\ UNCHANGED <<pc, commands, exitCode>>
           ELSE IF toLowerCase(input) = S_exit \/ toLowerCase(input) = S_quit
           THEN /\ events' = <<Line(raw), Shown("Goodbye")>>
                /\ exitCode' = Present(0)
                /\ commands' = <<>>
                /\ UNCHANGED pc
           ELSE IF toLowerCase(input) = S_help
           THEN /\ events' = <<Line(raw), Shown("help")>>
                /\ UNCHANGED <<pc, commands, exitCode>>
           ELSE IF toLowerCase(input) = S_clear
           THEN /\ events' = <<Line(raw), Shown("clear")>>
                /\ UNCHANGED <<pc, commands, exitCode>>
           ELSE /\ NextTurn(conversationHistory) <= MaxTurns
                /\ commands' = <<Command(input, "model", <<>>, <<>>)>>
                /\ events' = <<Line(raw),
                               Request("chat.completions.create",
                                       [history |-> conversationHistory,
                                        content |-> input])>>
                /\ UNCHANGED <<pc, exitCode>>
  /\ UNCHANGED <<gmailService, lastEmailIds, lastSearchResults, lastReadEmailId,
                 labelsCache, geminiService, mcpGmail, serverLabels, call,
                 conversationHistory, context>>

InTools == Len(commands) = 1 /\ commands[1].stage = "tools"
NextCall == commands[1].toolCalls[Len(commands[1].done) + 1]

\* processCommand, when the model request settles: a failure is reported by
\* the outer catch, and the history is not touched; a response without tool
\* calls is appended to the history; the tool calls of another are executed
processCommand_response(Names) ==
  /\ pc = "loop"
  /\ exitCode = NULL
  /\ Len(commands) = 1 /\ commands[1].stage = "model"
  /\ \/ \E rate \in BOOLEAN :
          /\ commands' = <<>>
          /\ events' = <<Warn("Failed to process command",
                              IF rate THEN "rate limit" ELSE "error")>>
                        \o (IF rate THEN <<Shown("Tip")>> ELSE <<>>)
          /\ UNCHANGED conversationHistory
     \/ \E toolCalls \in SeqsUpTo(ToolCallsOf(Names), MaxToolCalls) :
          /\ events' = <<Shown("content")>>
          /\ IF toolCalls = <<>>
             THEN /\ commands' = <<>>
                  /\ conversationHistory' =
                       AppendTurn(conversationHistory, commands[1].input, "content", <<>>)
             ELSE /\ commands' = <<Command(commands[1].input, "tools", toolCalls, <<>>)>>
                  /\ UNCHANGED conversationHistory
  /\ UNCHANGED <<pc, gmailService, lastEmailIds, lastSearchResults, lastReadEmailId,
                 labelsCache, geminiService, mcpGmail, serverLabels, call,
                 context, exitCode>>

\* the tool call that processCommand executes next is one of this tool
ToolCallIs(name) ==
  /\ exitCode = NULL
  /\ InTools
  /\ NextCall.name = name
  /\ NextCall.parses

\* callTool, default case: the tool is not one of the switch
callTool_default ==
  /\ pc = "loop"
  /\ Idle
  /\ call' = Call("groq", "unknown_tool", <<>>, <<>>, "error", [error |-> "Unknown tool"])
  /\ events' = <<>>
  /\ UNCHANGED loopVars
  /\ UNCHANGED <<groqVars, geminiService, mcpGmail, serverLabels>>

\* the loop over the tool calls goes on after a tool call: its outcome is
\* recorded, and after the last tool call the turn is appended to the history
ToolCallDone(outcome) ==
  LET c == commands[1]
      done == Append(c.done, [name |-> NextCall.name, outcome |-> outcome])
  IN  IF Len(done) = Len(c.toolCalls)
      THEN /\ commands' = <<>>
           /\ conversationHistory' =
                AppendTurn(conversationHistory, c.input, "content", done)
      ELSE /\ commands' = <<Command(c.input, "tools", c.toolCalls, done)>>
           /\ UNCHANGED conversationHistory

\* JSON.parse throws on the arguments of the tool call: the inner catch
\* reports it, callTool is not called
processCommand_parseFails ==
  /\ pc = "loop"
  /\ exitCode = NULL
  /\ Idle
  /\ InTools
  /\ ~NextCall.parses
  /\ ToolCallDone("error")
  /\ events' = <<Warn("Failed", "SyntaxError")>>
  /\ UNCHANGED <<groqVars, geminiService, mcpGmail, serverLabels, call,
                 context, exitCode>>

\* the failure of a tool call ending the process
processCommand_toolSettled_Rethrows ==
  /\ pc = "loop"
  /\ exitCode = NULL
  /\ InTools
  /\ call.path = "groq" /\ call.tool = NextCall.name
  /\ IF call.outcome = "error"
     THEN /\ exitCode' = Present(1)
          /\ commands' = <<>>
          /\ UNCHANGED conversationHistory
     ELSE /\ ToolCallDone(call.outcome)
          /\ UNCHANGED exitCode
  /\ events' = IF call.outcome = "error" THEN <<Warn("Failed to start", call.value.error)>>
               ELSE <<Shown("Completed")>>
  /\ call' = NoCall
  /\ UNCHANGED <<groqVars, geminiService, mcpGmail, serverLabels, context>>

\* callTool has returned or thrown: the result is displayed, or the inner
\* catch reports the failure
processCommand_toolSettled ==
  /\ pc = "loop"
  /\ exitCode = NULL
  /\ InTools
  /\ call.path = "groq" /\ call.tool = NextCall.name
  /\ ToolCallDone(call.outcome)
  /\ events' = IF call.outcome = "error" THEN <<Warn("Failed", call.value.error)>>
               ELSE <<Shown("Completed")>>
  /\ call' = NoCall
  /\ UNCHANGED <<groqVars, geminiService, mcpGmail, serverLabels, context, exitCode>>

\* the tools that the modelled responses of the model call
LoopTools == {"create_label", "confirm_dangerous_action", "unknown_tool"}

\* a session of the Groq CLI
NextGroq ==
  \/ exitCode = NULL /\ Start
  \/ exitCode = NULL /\ call.tool = "start" /\ Return
  \/ SIGINT
  \/ start_loop
  \/ processCommand_response(LoopTools)
  \/ ToolCallIs("create_label") /\ callTool_create_label
  \/ ToolCallIs("confirm_dangerous_action") /\ callTool_confirm_dangerous_action
  \/ ToolCallIs("unknown_tool") /\ callTool_default
  \/ processCommand_parseFails
  \/ processCommand_toolSettled

SpecGroq == Init /\ [][NextGroq]_vars

\* ------------------------------------------------------------------------
\* Gemini CLI: the handler of the readline "line" event and processCommand.
\* The handler is an async function that readline does not await: it is
\* entered for every line, whatever the earlier calls of it are awaiting.
\* ------------------------------------------------------------------------
RemoveAt(seq, i) == SubSeq(seq, 1, i - 1) \o SubSeq(seq, i + 1, Len(seq))

\* foundEmailIds holds an id: the last search_emails call that succeeded
\* found a message
FoundEmailIds(done) ==
  LET oks == {i \in DOMAIN done : done[i].outcome = "ok"}
  IN  oks # {} /\ done[CHOOSE i \in oks : \A j \in oks : j <= i].found

\* processCommand, after the tool calls: the input and the response are
\* appended, then the ids that were found, and the context is cut
gemini_AppendTurn(history, input, done) ==
  LET n == NextTurn(history)
      k == NextSeq(history)
      h == history \o <<Entry(k, n, "user"), Entry(k + 1, n, "model")>>
                   \o (IF FoundEmailIds(done)
                       THEN <<Entry(k + 2, n, "found")>>
                       ELSE <<>>)
  IN  IF Len(h) > HistoryLimit THEN sliceLast(h, HistoryLimit) ELSE h

\* start(): the prompt is shown and the handlers are registered
gemini_start ==
  /\ pc = "start"
  /\ exitCode = NULL
  /\ Idle
  /\ pc' = "gemini"
  /\ events' = <<Shown("prompt")>>
  /\ UNCHANGED <<gmailService, lastEmailIds, lastSearchResults, lastReadEmailId,
                 labelsCache, geminiService, mcpGmail, serverLabels, call, loopVars>>

\* the "line" handler up to its first await: processCommand builds the
\* prompt, starts a chat with the context and sends the prompt
gemini_line ==
  /\ pc = "gemini"
  /\ exitCode = NULL
  /\ \E raw \in Lines :
       LET input == trim(raw)
       IN  IF ~Truthy(input)
           THEN /\ events' = <<Line(raw), Shown("prompt")>>
                /\ UNCHANGED <<pc, commands, exitCode>>
           ELSE IF toLowerCase(input) = S_exit \/ toLowerCase(input) = S_quit
           THEN /\ events' = <<Line(raw), Shown("Goodbye")>>
                /\ exitCode' = Present(0)
                /\ commands' = <<>>
                /\ UNCHANGED pc
           ELSE IF toLowerCase(input) = S_help
           THEN /\ events' = <<Line(raw), Shown("help"), Shown("prompt")>>
                /\ UNCHANGED <<pc, commands, exitCode>>
           ELSE IF toLowerCase(input) = S_clear
           THEN /\ events' = <<Line(raw), Shown("clear"), Shown("prompt")>>
                /\ UNCHANGED <<pc, commands, exitCode>>
           ELSE /\ Len(commands) < MaxInFlight
                /\ NextTurn(context) + Len(commands) <= MaxContextTurns
                /\ commands' = Append(commands, Command(input, "model", <<>>, <<>>))
                /\ events' = <<Line(raw),
                               Request("sendMessage",
                                       [history |-> context, content |-> input])>>
                /\ UNCHANGED <<pc, exitCode>>
  /\ UNCHANGED <<gmailService, lastEmailIds, lastSearchResults, lastReadEmailId,
                 labelsCache, geminiService, mcpGmail, serverLabels, call,
                 conversationHistory, context>>

\* the tool calls of the modelled responses: none, or one search
GeminiResponses == {<<>>, <<ToolCall("search_emails", TRUE)>>}

\* processCommand, when sendMessage settles: a failure is reported by the
\* outer catch; a TOOL_CALLS block that does not parse is reported and
\* processCommand returns; otherwise the tool calls are executed
gemini_response ==
  /\ pc = "gemini"
  /\ exitCode = NULL
  /\ \E i \in DOMAIN commands :
       /\ commands[i].stage = "model"
       /\ \/ /\ commands' = RemoveAt(commands, i)
             /\ events' = <<Warn("Failed to process command", "error"), Shown("prompt")>>
             /\ UNCHANGED context
          \/ /\ commands' = RemoveAt(commands, i)
             /\ events' = <<Warn("Failed to parse tool calls", <<>>), Shown("prompt")>>
             /\ UNCHANGED context
          \/ \E toolCalls \in GeminiResponses :
               IF toolCalls = <<>>
               THEN /\ commands' = RemoveAt(commands, i)
                    /\ context' = gemini_AppendTurn(context, commands[i].input, <<>>)
                    /\ events' = <<Shown("explanation"), Shown("prompt")>>
               ELSE /\ commands' = [commands EXCEPT ![i] =
                                      Command(commands[i].input, "tools", toolCalls, <<>>)]
                    /\ events' = <<Shown("explanation")>>
                    /\ UNCHANGED context
  /\ UNCHANGED <<pc, gmailService, lastEmailIds, lastSearchResults, lastReadEmailId,
                 labelsCache, geminiService, mcpGmail, serverLabels, call,
                 conversationHistory, exitCode>>

\* the queries of the searches that the modelled responses ask for
GeminiQueries == {{}, MailboxIds}

\* processCommand, one tool call: callMCPTool("search_emails") from its call
\* to its result, then the next tool call or, after the last one, the
\* context
gemini_toolCall ==
  /\ pc = "gemini"
  /\ exitCode = NULL
  /\ \E i \in DOMAIN commands, Q \in GeminiQueries, authOk \in BOOLEAN, f \in 0..1 :
       LET c == commands[i]
           thrown == geminiService = "null" /\ ~authOk
           r == IF thrown THEN Throw("Gmail auth failed", <<>>)
                ELSE searchEmails(GeminiInitialize(authOk) = "ready", Q,
                                  DefaultMaxResults, f)
           done == Append(c.done,
                          [name |-> "search_emails", outcome |-> Outcome(r),
                           found |-> r.ok /\ r.value.messages # <<>>])
       IN  /\ c.stage = "tools"
           /\ geminiService' = GeminiInitialize(authOk)
           /\ events' = (IF thrown THEN <<>>
                         ELSE <<Svc("searchEmails", <<Q, DefaultMaxResults>>)>> \o r.events)
                        \o (IF r.ok THEN <<>> ELSE <<Warn("Failed to execute", r.value.error)>>)
           /\ IF Len(done) = Len(c.toolCalls)
              THEN /\ commands' = RemoveAt(commands, i)
                   /\ context' = gemini_AppendTurn(context, c.input, done)
              ELSE /\ commands' = [commands EXCEPT ![i] =
                                     Command(c.input, "tools", c.toolCalls, done)]
                   /\ UNCHANGED context
  /\ UNCHANGED <<pc, gmailService, lastEmailIds, lastSearchResults, lastReadEmailId,
                 labelsCache, mcpGmail, serverLabels, call, conversationHistory,
                 exitCode>>

\* ------------------------------------------------------------------------
\* Anthropic CLI: as the Gemini CLI, with no clear command, a TOOL_CALLS
\* block that does not parse taken for no tool call, and every tool call
\* handed to an MCP server process spawned for it, whose answer the CLI only
\* displays
\* ------------------------------------------------------------------------
anthropic_AppendTurn(history, input) ==
  LET n == NextTurn(history)
      k == NextSeq(history)
      h == history \o <<Entry(k, n, "user"),
                        Entry(k + 1, n, "assistant")>>
  IN  IF Len(h) > AnthropicHistoryLimit THEN sliceLast(h, AnthropicHistoryLimit) ELSE h

anthropic_start ==
  /\ pc = "start"
  /\ exitCode = NULL
  /\ Idle
  /\ pc' = "anthropic"
  /\ events' = <<Shown("prompt")>>
  /\ UNCHANGED <<gmailService, lastEmailIds, lastSearchResults, lastReadEmailId,
                 labelsCache, geminiService, mcpGmail, serverLabels, call, loopVars>>

anthropic_line ==
  /\ pc = "anthropic"
  /\ exitCode = NULL
  /\ \E raw \in Lines :
       LET input == trim(raw)
       IN  IF toLowerCase(input) = S_exit \/ toLowerCase(input) = S_quit
           THEN /\ events' = <<Line(raw), Shown("Goodbye")>>
                /\ exitCode' = Present(0)
                /\ commands' = <<>>
                /\ UNCHANGED pc
           ELSE IF toLowerCase(input) = S_help
           THEN /\ events' = <<Line(raw), Shown("help"), Shown("prompt")>>
                /\ UNCHANGED <<pc, commands, exitCode>>
           ELSE IF Truthy(input)
           THEN /\ Len(commands) < MaxInFlight
                /\ NextTurn(context) + Len(commands) <= MaxContextTurns
                /\ commands' = Append(commands, Command(input, "model", <<>>, <<>>))
                /\ events' = <<Line(raw),
                               Request("messages.create",
                                       [history |-> context, content |-> input])>>
                /\ UNCHANGED <<pc, exitCode>>
           ELSE /\ events' = <<Line(raw), Shown("prompt")>>
                /\ UNCHANGED <<pc, commands, exitCode>>
  /\ UNCHANGED <<gmailService, lastEmailIds, lastSearchResults, lastReadEmailId,
                 labelsCache, geminiService, mcpGmail, serverLabels, call,
                 conversationHistory, context>>

\* the tool calls of the modelled responses: none, or one list_labels
AnthropicResponses == {<<>>, <<ToolCall("list_labels", TRUE)>>}

anthropic_response ==
  /\ pc = "anthropic"
  /\ exitCode = NULL
  /\ \E i \in DOMAIN commands :
       /\ commands[i].stage = "model"
       /\ \/ /\ commands' = RemoveAt(commands, i)
             /\ events' = <<Warn("Failed to process command", "error"), Shown("prompt")>>
             /\ UNCHANGED context
          \/ \E toolCalls \in AnthropicResponses :
               IF toolCalls = <<>>
               THEN /\ commands' = RemoveAt(commands, i)
                    /\ context' = anthropic_AppendTurn(context, commands[i].input)
                    /\ events' = <<Shown("explanation"), Shown("prompt")>>
               ELSE /\ commands' = [commands EXCEPT ![i] =
                                      Command(commands[i].input, "tools", toolCalls, <<>>)]
                    /\ events' = <<Shown("explanation")>>
                    /\ UNCHANGED context
  /\ UNCHANGED <<pc, gmailService, lastEmailIds, lastSearchResults, lastReadEmailId,
                 labelsCache, geminiService, mcpGmail, serverLabels, call,
                 conversationHistory, exitCode>>

\* one tool call: the spawned server process exits with code 0 and its
\* output is displayed, or with another code and the failure is reported
anthropic_toolCall ==
  /\ pc = "anthropic"
  /\ exitCode = NULL
  /\ \E i \in DOMAIN commands, ok \in BOOLEAN :
       LET c == commands[i]
           done == Append(c.done, [name |-> c.toolCalls[Len(c.done) + 1].name,
                                   outcome |-> IF ok THEN "ok" ELSE "error"])
       IN  /\ c.stage = "tools"
           /\ events' = <<Request("tools/call", [name |-> c.toolCalls[Len(c.done) + 1].name])>>
                        \o (IF ok THEN <<>> ELSE <<Warn("Failed to execute", "error")>>)
           /\ IF Len(done) = Len(c.toolCalls)
              THEN /\ commands' = RemoveAt(commands, i)
                   /\ context' = anthropic_AppendTurn(context, c.input)
              ELSE /\ commands' = [commands EXCEPT ![i] =
                                     Command(c.input, "tools", c.toolCalls, done)]
                   /\ UNCHANGED context
  /\ UNCHANGED <<pc, gmailService, lastEmailIds, lastSearchResults, lastReadEmailId,
                 labelsCache, geminiService, mcpGmail, serverLabels, call,
                 conversationHistory, exitCode>>

\* a session of one of the three CLI front-ends
NextCLI ==
  \/ NextGroq
  \/ gemini_start
  \/ gemini_line
  \/ gemini_response
  \/ gemini_toolCall
  \/ anthropic_start
  \/ anthropic_line
  \/ anthropic_response
  \/ anthropic_toolCall

SpecCLI == Init /\ [][NextCLI]_vars

\* a history is the last entries that were appended, in the order they were
\* appended, cut from its oldest end, and only as far as the limit needs
MostRecent(history, limit) ==
  /\ Len(history) <= limit
  /\ \A i \in 1..(Len(history) - 1) : history[i + 1].seq = history[i].seq + 1
  /\ (history # <<>> /\ history[1].seq > 1) => Len(history) = limit
\* the step reports that the model request, or the parsing of its tool
\* calls, failed
CommandFailed ==
  /\ events # <<>>
  /\ events[1].type = "warn"
  /\ events[1].text \in {"Failed to process command", "Failed to parse tool calls"}

\* C21: the conversation history never holds more than 20 entries (10 in
\* the Anthropic CLI); what it holds are the entries appended last, in the
\* order they were appended, and every command that is processed without the
\* model request failing adds its entries at the end.
C21_HistoryKeepsMostRecent ==
  /\ [](/\ MostRecent(conversationHistory, HistoryLimit)
        /\ MostRecent(context, IF pc = "anthropic" THEN AnthropicHistoryLimit
                               ELSE HistoryLimit))
  /\ [][(Len(commands') < Len(commands) /\ exitCode' = NULL /\ ~CommandFailed') =>
          /\ pc = "loop" => NextSeq(conversationHistory') = NextSeq(conversationHistory) + 2
          /\ pc = "anthropic" => NextSeq(context') = NextSeq(context) + 2
          /\ pc = "gemini" => NextSeq(context') \in {NextSeq(context) + 2,
                                                    NextSeq(context) + 3}]_vars

\* the Groq history after its first two entries were evicted
C21_Witness ==
  /\ pc = "loop" /\ commands = <<>>
  /\ Len(conversationHistory) = HistoryLimit
  /\ conversationHistory[1].seq = 3
  /\ conversationHistory[HistoryLimit].seq = HistoryLimit + 2


\* the line is the word in any letter case, between any white space
IsWord(raw, word) ==
  \E i \in 1..(Len(raw) + 1), j \in 0..Len(raw) :
    /\ i <= j + 1
    /\ \A k \in 1..(i - 1) : raw[k] \in WhiteSpace
    /\ \A k \in (j + 1)..Len(raw) : raw[k] \in WhiteSpace
    /\ toLowerCase(SubSeq(raw, i, j)) = word
\* the step has read this line, which is one of the words
ReadsLine(Words) ==
  /\ events # <<>>
  /\ events[1].type = "line"
  /\ \E word \in Words : IsWord(events[1].input, word)
NoRequest == \A i \in DOMAIN events : events[i].type \notin {"request", "svc"}
SessionContextUnchanged ==
  UNCHANGED <<lastEmailIds, lastSearchResults, lastReadEmailId, labelsCache,
              conversationHistory, context, commands>>

C24_OneCommandAtATime == Len(commands) <= 1


\* the Groq CLI is in its main loop after the authentication of its start()
\* has failed, awaiting a line: the service was constructed and never
\* initialized
InLoopAfterFailedAuth == pc = "loop" /\ gmailService = "created" /\ Idle

\* C25: when the Gmail authentication of start() fails the process ends
\* with a non-zero exit code and the read loop is not entered; exit and quit
\* end the process with exit code 0.
C25_AuthFailureExitsNonZero ==
  /\ [](InLoopAfterFailedAuth => exitCode \notin {NULL, Present(0)})
  /\ [][ReadsLine({S_exit, S_quit})' => exitCode' = Present(0)]_vars

\* the part of C25 about exit and quit, on its own
GracefulExitIsZero ==
  [][ReadsLine({S_exit, S_quit})' => exitCode' = Present(0)]_vars


\* ------------------------------------------------------------------------
\* The Groq session with the steps that need no input taken eventually: the
\* model request and every tool call settle, one way or the other, and the
\* event loop then runs the continuation of the await. A confirmation
\* prompt is answered. Lines and Ctrl+C come when the user sends them.
\* ------------------------------------------------------------------------
GroqSettles ==
  \/ exitCode = NULL /\ call.tool = "start" /\ Return
  \/ processCommand_response(LoopTools)
  \/ ToolCallIs("create_label") /\ callTool_create_label
  \/ ToolCallIs("confirm_dangerous_action") /\ callTool_confirm_dangerous_action
  \/ ToolCallIs("unknown_tool") /\ callTool_default
  \/ processCommand_parseFails
  \/ processCommand_toolSettled

GroqFairness == WF_vars(GroqSettles)

\* a Groq session of a few commands
NextGroqFair ==
  \/ exitCode = NULL /\ Start
  \/ exitCode = NULL /\ call.tool = "start" /\ Return
  \/ SIGINT
  \/ start_loop /\ NextTurn(conversationHistory) <= MaxFairTurns
  \/ processCommand_response(LoopTools)
  \/ ToolCallIs("create_label") /\ callTool_create_label
  \/ ToolCallIs("confirm_dangerous_action") /\ callTool_confirm_dangerous_action
  \/ ToolCallIs("unknown_tool") /\ callTool_default
  \/ processCommand_parseFails
  \/ processCommand_toolSettled

SpecGroqFair == Init /\ [][NextGroqFair]_vars /\ GroqFairness

\* the main loop awaits a line
AwaitingInput ==
  pc = "loop" /\ exitCode = NULL /\ commands = <<>> /\ Idle
\* the step reports a failure
Reported == \E i \in DOMAIN events : events[i].type = "warn"
\* the step displays what the model or a tool has answered
Displayed == \E i \in DOMAIN events : events[i].type = "shown"
\* the tool call that has settled was cancelled by the user
UserDeclined ==
  /\ call.tool = "confirm_dangerous_action"
  /\ call.outcome = "ok"
  /\ ~call.value.confirmed

\* the step goes on from the tool call at hand, the process not ending
Settled == commands' # commands /\ exitCode' = NULL

\* C23: the failure of the model request, of the parsing of a tool call's
\* arguments or of a tool call is reported, a cancelled call is displayed,
\* and the loop comes back to awaiting input; the process ends only by exit,
\* quit or Ctrl+C, with a command in progress or not.
C23_FailuresReturnToPrompt ==
  /\ (commands # <<>>) ~> (AwaitingInput \/ exitCode # NULL)
  /\ [](CommandFailed => AwaitingInput)
  /\ [][/\ (InTools /\ ~NextCall.parses /\ Settled) => Reported'
        /\ (InTools /\ call.path = "groq" /\ call.outcome = "error" /\ Settled) =>
             Reported'
        /\ (InTools /\ call.path = "groq" /\ UserDeclined /\ Settled) => Displayed'
        /\ (Len(commands) = 1 /\ commands[1].stage = "model" /\ commands' = <<>>
              /\ exitCode' = NULL /\ UNCHANGED conversationHistory) => Reported'
        /\ exitCode' # exitCode =>
             \/ ReadsLine({S_exit, S_quit})'
             \/ events' = <<Signal("SIGINT")>>]_vars

\* the loop awaits a line after the last tool call of a command has failed,
\* the failure reported and the turn in the history
C23_Witness ==
  /\ AwaitingInput
  /\ events = <<Warn("Failed", "Unknown tool")>>
  /\ conversationHistory # <<>>


\* the tool calls that were executed are the first ones of the response, in
\* its order, and the call in progress is the next one
ExecutedInOrder ==
  /\ InTools =>
       /\ Len(commands[1].done) < Len(commands[1].toolCalls)
       /\ \A i \in DOMAIN commands[1].done :
            commands[1].done[i].name = commands[1].toolCalls[i].name
  /\ (commands # <<>> /\ call.path = "groq") =>
       InTools /\ call.tool = NextCall.name
\* the step ends a tool call, with whatever outcome: the command goes on to
\* the next tool call of the same response, or after the last one appends
\* the turn to the history
GoesOn ==
  LET c == commands[1]
  IN  IF Len(c.done) + 1 < Len(c.toolCalls)
      THEN /\ Len(commands') = 1
           /\ commands'[1].stage = "tools"
           /\ commands'[1].toolCalls = c.toolCalls
           /\ Len(commands'[1].done) = Len(c.done) + 1
           /\ SubSeq(commands'[1].done, 1, Len(c.done)) = c.done
           /\ UNCHANGED conversationHistory
      ELSE /\ commands' = <<>>
           /\ NextSeq(conversationHistory') = NextSeq(conversationHistory) + 2
           /\ conversationHistory'[Len(conversationHistory') - 1].role = "user"
           /\ conversationHistory'[Len(conversationHistory')].role = "assistant"

\* C29: the tool calls of a response are executed one at a time in the
\* order of the response; a tool call that fails, like one that succeeds or
\* is declined, is followed by the next one, and after the last one the turn
\* is appended to the history; every tool call of the response is executed
\* unless the process is ended.
C29_ToolCallsInOrderDespiteFailure ==
  /\ []ExecutedInOrder
  /\ [][(InTools /\ commands' # commands /\ exitCode' = NULL) => GoesOn]_vars
  /\ InTools ~> (commands = <<>> \/ exitCode # NULL)

\* the first tool call of the response has failed and the second one has
\* been executed with success
C29_Witness ==
  /\ InTools
  /\ Len(commands[1].done) = 1
  /\ commands[1].done[1].outcome = "error"
  /\ call.path = "groq"
  /\ call.tool = commands[1].toolCalls[2].name
  /\ call.outcome = "ok"

====
